---- MODULE Spec2Model ----
(***************************************************************************)
(* Model of the pj project catalog: the Project record                     *)
(* (internal/catalog/project.go), the dual-indexed YAMLCatalog engine and  *)
(* its Save/Load codec (internal/catalog/yaml_catalog.go).                 *)
(*                                                                         *)
(* Strings that the code inspects (names, paths, tags) are sequences of    *)
(* one-character strings, so that TrimSpace and IsAbs are computed.  Ids   *)
(* are only compared and are plain strings.  A Go slice is a record        *)
(* [nil, elems], because the code and the YAML codec tell a nil slice from *)
(* an empty one.                                                           *)
(***************************************************************************)
EXTENDS Integers, Sequences, FiniteSets, TLC

(***************************************************************************)
(* Bounded input domains                                                   *)
(***************************************************************************)
Threads == {"t1", "t2"}

Ids == {"p1", "p2"}

NameA == <<"a">>
NameBlank == <<" ">>
Names == {NameA, NameBlank}

PathA == <<"/", "a">>
PathB == <<"/", "b">>
PathRel == <<"r">>
PathGone == <<"/", "x">>
PathDenied == <<"/", "n">>
Paths == {PathA, PathB, PathRel, PathGone, PathDenied}

\* Names the catalog file may be given (the --catalog flag takes any string).
CatalogPath == <<"/", "c">>
CatalogPathQuote == <<"/", "\"", "c">>
CatalogPaths == {CatalogPath, CatalogPathQuote}

\* Directories present on disk, and paths whose stat fails for another reason.
DirsOnDisk == {PathA, PathB}
DirsDenied == {PathDenied}

(***************************************************************************)
(* Go slices                                                               *)
(***************************************************************************)
NilSlice == [nil |-> TRUE, elems |-> <<>>]

MkSlice(s) == [nil |-> FALSE, elems |-> s]

(***************************************************************************)
(* Error values                                                            *)
(***************************************************************************)
Ok == "nil"
ErrNotFound == "ErrNotFound"
ErrAlreadyExists == "ErrAlreadyExists"
ErrEmptyName == "ErrEmptyName"
ErrRelativePath == "ErrRelativePath"
ErrPathNotExist == "ErrPathNotExist"
ErrInvalidStatus == "ErrInvalidStatus"
ErrAccess == "cannot access path"
ErrRead == "failed to read catalog file"
ErrParse == "failed to parse catalog file"
ErrRename == "rename: no such file or directory"

\* strconv.Quote, which the verb %q applies: the double quote and the
\* backslash are escaped, the result is enclosed in double quotes.
RECURSIVE Escape(_)
Escape(s) ==
    IF s = <<>> THEN <<>>
    ELSE (IF Head(s) \in {"\"", "\\"} THEN <<"\\", Head(s)>> ELSE <<Head(s)>>)
         \o Escape(Tail(s))

Quote(s) == <<"\"">> \o Escape(s) \o <<"\"">>

\* strings.Contains
Contains(s, sub) ==
    \E i \in 1..(Len(s) - Len(sub) + 1) : SubSeq(s, i, i + Len(sub) - 1) = sub

\* fmt.Errorf("failed to read catalog file: %w", err) of the *PathError
\* that os.ReadFile returns.
ReadErrorMessage(p) ==
    <<ErrRead, ": ", "open ">> \o p \o <<": ", "permission denied">>

\* fmt.Errorf("failed to parse catalog file %q: %w", c.path, err)
ParseErrorMessage(p) ==
    <<ErrParse, " ">> \o Quote(p) \o <<": ", "yaml: ">>

StatusActive == "active"
StatusArchived == "archived"
StatusAbandoned == "abandoned"

(***************************************************************************)
(* Project record                                                          *)
(***************************************************************************)
\* NewProject with the id and the clock reading supplied by the caller.
NewProject(id, name, path, now) ==
    [ID |-> id, Name |-> name, Path |-> path,
     Types |-> MkSlice(<<>>), Tags |-> NilSlice,
     Status |-> StatusActive, Notes |-> "",
     AddedAt |-> now, LastAccessed |-> now,
     GitRemote |-> "", Description |-> ""]

\* The zero Project, returned next to an error.
ZeroProject ==
    [ID |-> "", Name |-> <<>>, Path |-> <<>>,
     Types |-> NilSlice, Tags |-> NilSlice,
     Status |-> "", Notes |-> "",
     AddedAt |-> 0, LastAccessed |-> 0,
     GitRemote |-> "", Description |-> ""]

RECURSIVE TrimLeft(_)
TrimLeft(s) ==
    IF s = <<>> THEN s
    ELSE IF Head(s) = " " THEN TrimLeft(Tail(s)) ELSE s

RECURSIVE TrimRight(_)
TrimRight(s) ==
    IF s = <<>> THEN s
    ELSE IF s[Len(s)] = " " THEN TrimRight(SubSeq(s, 1, Len(s) - 1)) ELSE s

TrimSpace(s) == TrimRight(TrimLeft(s))

IsAbs(path) == path # <<>> /\ Head(path) = "/"

\* os.Stat on a project path: "ok", "notexist" or "denied".
Stat(path) ==
    IF path \in DirsOnDisk THEN "ok"
    ELSE IF path \in DirsDenied THEN "denied"
    ELSE "notexist"

\* A status check whose switch lacks the case StatusAbandoned.
isValidStatusNoAbandoned(s) == s \in {StatusActive, StatusArchived}

isValidStatus(s) == s \in {StatusActive, StatusArchived, StatusAbandoned}

RECURSIVE CleanTagsNoTrim(_)
\* Tag cleaning that drops blank tags but stores the others untrimmed.
CleanTagsNoTrim(tags) ==
    IF tags = <<>> THEN <<>>
    ELSE IF TrimSpace(Head(tags)) # <<>>
         THEN <<Head(tags)>> \o CleanTagsNoTrim(Tail(tags))
         ELSE CleanTagsNoTrim(Tail(tags))

RECURSIVE CleanTagsTrimAfterFilter(_)
\* Tag cleaning that tests the tag for emptiness before it trims it.
CleanTagsTrimAfterFilter(tags) ==
    IF tags = <<>> THEN <<>>
    ELSE IF Head(tags) # <<>>
         THEN <<TrimSpace(Head(tags))>> \o CleanTagsTrimAfterFilter(Tail(tags))
         ELSE CleanTagsTrimAfterFilter(Tail(tags))

RECURSIVE CleanTags(_)
CleanTags(tags) ==
    IF tags = <<>> THEN <<>>
    ELSE IF TrimSpace(Head(tags)) # <<>>
         THEN <<TrimSpace(Head(tags))>> \o CleanTags(Tail(tags))
         ELSE CleanTags(Tail(tags))

\* ValidateAndNormalize: the error, and the receiver as it is left.
ValidateAndNormalize(p) ==
    IF TrimSpace(p.Name) = <<>> THEN [err |-> ErrEmptyName, p |-> p]
    ELSE IF ~IsAbs(p.Path) THEN [err |-> ErrRelativePath, p |-> p]
    ELSE IF Stat(p.Path) = "notexist" THEN [err |-> ErrPathNotExist, p |-> p]
    ELSE IF Stat(p.Path) # "ok" THEN [err |-> ErrAccess, p |-> p]
    ELSE IF p.Status # "" /\ ~isValidStatus(p.Status)
         THEN [err |-> ErrInvalidStatus, p |-> p]
    ELSE [err |-> Ok,
          p |-> [p EXCEPT !.Tags = MkSlice(CleanTags(p.Tags.elems))]]

\* Records a caller may hand to Add and Update.
InputProjects ==
    {NewProject(id, name, path, 0) : id \in Ids, name \in Names, path \in Paths}

\* Tags, statuses and ids a caller may put into a record of its own making.
TagValid == <<"v">>
TagBlank == <<" ", " ">>
TagPadded == <<" ", "w", " ">>
InputTags ==
    {NilSlice, MkSlice(<<>>), MkSlice(<<TagBlank>>),
     MkSlice(<<TagValid, TagBlank, TagPadded>>)}

StatusUnset == ""
StatusBogus == "bogus"
InputStatuses == {StatusUnset, StatusActive, StatusAbandoned, StatusBogus}

WithTagsStatus(p, tags, status) == [p EXCEPT !.Tags = tags, !.Status = status]

\* Records built by hand: any tags, any status, with or without an id.
HandMadeProjects(ids, names, paths, tagss, statuses) ==
    {WithTagsStatus(NewProject(id, name, path, 0), tags, status) :
        id \in ids, name \in names, path \in paths,
        tags \in tagss, status \in statuses}

(***************************************************************************)
(* Maps                                                                    *)
(***************************************************************************)
EmptyMap == <<>>

MapPut(m, k, v) == [x \in (DOMAIN m) \cup {k} |-> IF x = k THEN v ELSE m[x]]

MapDel(m, k) == [x \in (DOMAIN m) \ {k} |-> m[x]]

(***************************************************************************)
(* Go string order (byte-wise) on the characters in use                    *)
(***************************************************************************)
LongS == "U+017F"   \* LATIN SMALL LETTER LONG S, two bytes in UTF-8

Alphabet ==
    <<" ", "/", "A", "B", "S", "a", "b", "n", "r", "s", "t", "x", LongS>>

CharOrd(c) == CHOOSE i \in 1..Len(Alphabet) : Alphabet[i] = c

RECURSIVE StrLess(_, _)
StrLess(a, b) ==
    IF b = <<>> THEN FALSE
    ELSE IF a = <<>> THEN TRUE
    ELSE IF Head(a) = Head(b) THEN StrLess(Tail(a), Tail(b))
    ELSE CharOrd(Head(a)) < CharOrd(Head(b))

(***************************************************************************)
(* Persistence codec.  File content is a sequence of tokens: a version     *)
(* line, then one YAML mapping per project.  A mapping is a function from  *)
(* the keys that are present to their values, so that omitempty is         *)
(* observable.                                                             *)
(***************************************************************************)
VersionToken(v) == [kind |-> "version", version |-> v, map |-> <<>>]
ProjectToken(m) == [kind |-> "project", version |-> 0, map |-> m]
GarbageToken == [kind |-> "garbage", version |-> 0, map |-> <<>>]
BlankToken == [kind |-> "blank", version |-> 0, map |-> <<>>]

NoFile == [exists |-> FALSE, data |-> <<>>]
FileOf(bytes) == [exists |-> TRUE, data |-> bytes]

\* The yaml struct tags of Project: keys written for p.
YAMLKeys(p) ==
    {"id", "name", "path", "status", "added_at", "last_accessed"}
    \cup (IF p.Types.elems # <<>> THEN {"types"} ELSE {})
    \cup (IF p.Tags.elems # <<>> THEN {"tags"} ELSE {})
    \cup (IF p.Notes # "" THEN {"notes"} ELSE {})
    \cup (IF p.GitRemote # "" THEN {"git_remote"} ELSE {})
    \cup (IF p.Description # "" THEN {"description"} ELSE {})

MarshalProject(p) ==
    [k \in YAMLKeys(p) |->
        CASE k = "id" -> p.ID
          [] k = "name" -> p.Name
          [] k = "path" -> p.Path
          [] k = "types" -> p.Types.elems
          [] k = "tags" -> p.Tags.elems
          [] k = "status" -> p.Status
          [] k = "notes" -> p.Notes
          [] k = "added_at" -> p.AddedAt
          [] k = "last_accessed" -> p.LastAccessed
          [] k = "git_remote" -> p.GitRemote
          [] k = "description" -> p.Description]

\* Decoding a mapping into a zero Project: absent keys keep the zero value.
UnmarshalProject(m) ==
    [ID |-> IF "id" \in DOMAIN m THEN m["id"] ELSE "",
     Name |-> IF "name" \in DOMAIN m THEN m["name"] ELSE <<>>,
     Path |-> IF "path" \in DOMAIN m THEN m["path"] ELSE <<>>,
     Types |-> IF "types" \in DOMAIN m THEN MkSlice(m["types"]) ELSE NilSlice,
     Tags |-> IF "tags" \in DOMAIN m THEN MkSlice(m["tags"]) ELSE NilSlice,
     Status |-> IF "status" \in DOMAIN m THEN m["status"] ELSE "",
     Notes |-> IF "notes" \in DOMAIN m THEN m["notes"] ELSE "",
     AddedAt |-> IF "added_at" \in DOMAIN m THEN m["added_at"] ELSE 0,
     LastAccessed |->
        IF "last_accessed" \in DOMAIN m THEN m["last_accessed"] ELSE 0,
     GitRemote |-> IF "git_remote" \in DOMAIN m THEN m["git_remote"] ELSE "",
     Description |->
        IF "description" \in DOMAIN m THEN m["description"] ELSE ""]

\* catalogFile
CatalogFile(version, projs) == [Version |-> version, Projects |-> projs]

\* yaml.Marshal(catalogFile)
Marshal(file) ==
    <<VersionToken(file.Version)>>
    \o [i \in 1..Len(file.Projects) |->
           ProjectToken(MarshalProject(file.Projects[i]))]

RECURSIVE DecodeProjects(_)
DecodeProjects(bytes) ==
    IF bytes = <<>> THEN <<>>
    ELSE IF Head(bytes).kind = "project"
         THEN <<UnmarshalProject(Head(bytes).map)>>
              \o DecodeProjects(Tail(bytes))
         ELSE DecodeProjects(Tail(bytes))

DecodeVersion(bytes) ==
    IF \E i \in 1..Len(bytes) : bytes[i].kind = "version"
    THEN LET i == CHOOSE j \in 1..Len(bytes) : bytes[j].kind = "version"
         IN bytes[i].version
    ELSE 0

\* yaml.Unmarshal(data, &file): the error and the decoded catalogFile.
Unmarshal(bytes) ==
    IF \E i \in 1..Len(bytes) : bytes[i].kind = "garbage"
    THEN [err |-> ErrParse, file |-> CatalogFile(0, <<>>)]
    ELSE [err |-> Ok,
          file |-> CatalogFile(DecodeVersion(bytes), DecodeProjects(bytes))]

(***************************************************************************)
(* Save: snapshot in map iteration order, then a stable sort by Name       *)
(***************************************************************************)
\* The orders in which a range over map m may visit its values.
MapOrders(m) ==
    LET n == Cardinality(DOMAIN m)
        keys == {s \in [1..n -> DOMAIN m] :
                    \A i, j \in 1..n : i # j => s[i] # s[j]}
    IN {[i \in 1..n |-> m[s[i]]] : s \in keys}

RECURSIVE InsertByName(_, _)
\* Insertion that keeps x after every element it is not less than.
InsertByName(sorted, x) ==
    IF sorted = <<>> THEN <<x>>
    ELSE LET last == sorted[Len(sorted)]
         IN IF StrLess(x.Name, last.Name)
            THEN InsertByName(SubSeq(sorted, 1, Len(sorted) - 1), x)
                 \o <<last>>
            ELSE sorted \o <<x>>

RECURSIVE SortStableByName(_)
SortStableByName(s) ==
    IF s = <<>> THEN <<>>
    ELSE InsertByName(SortStableByName(SubSeq(s, 1, Len(s) - 1)), s[Len(s)])

\* The byte strings a Save of index m may produce.
SaveData(m) ==
    {Marshal(CatalogFile(1, SortStableByName(o))) : o \in MapOrders(m)}

(***************************************************************************)
(* Load: rebuilding both indices from the parsed list                      *)
(***************************************************************************)
RECURSIVE LoadIndicesUnderOneKey(_, _)
\* A loop that stores every record of the file under the key "p1".
LoadIndicesUnderOneKey(idx, projs) ==
    IF projs = <<>> THEN idx
    ELSE LET p == Head(projs)
         IN LoadIndicesUnderOneKey(
                [projects |-> MapPut(idx.projects, "p1", p),
                 byPath |-> MapPut(idx.byPath, p.Path, p.ID)],
                Tail(projs))

RECURSIVE LoadIndices(_, _)
\* The loop of Load over file.Projects, starting from the indices idx.
LoadIndices(idx, projs) ==
    IF projs = <<>> THEN idx
    ELSE LET p == Head(projs)
         IN LoadIndices([projects |-> MapPut(idx.projects, p.ID, p),
                         byPath |-> MapPut(idx.byPath, p.Path, p.ID)],
                        Tail(projs))

(***************************************************************************)
(* Catalog files written by other programs (editors, tests)                *)
(***************************************************************************)
\* Number of project entries an externally written catalog file may hold.
MaxFileRecs == 2

ExternalProject(id, path) ==
    ProjectToken(MarshalProject(NewProject(id, NameA, path, 0)))

ExternalProjects ==
    {ExternalProject("p1", PathA), ExternalProject("p2", PathA),
     ExternalProject("p1", PathB)}

ExternalFiles ==
    {<<>>, <<BlankToken>>, <<VersionToken(1), GarbageToken>>}
    \cup UNION {{<<VersionToken(1)>> \o s : s \in [1..n -> ExternalProjects]} :
                   n \in 1..MaxFileRecs}

(***************************************************************************)
(* Search and Filter                                                       *)
(***************************************************************************)
\* Letters with an upper-case form among the characters in use.
LowerLetters == <<"a", "b", "n", "r", "s", "t", "x">>
UpperLetters == <<"A", "B", "N", "R", "S", "T", "X">>

\* unicode.ToLower: the long s is a lower-case letter already.
ToLowerChar(c) ==
    IF \E i \in 1..Len(UpperLetters) : UpperLetters[i] = c
    THEN LowerLetters[CHOOSE i \in 1..Len(UpperLetters) : UpperLetters[i] = c]
    ELSE c

\* unicode.ToUpper: the upper-case form of the long s is S.
ToUpperChar(c) ==
    IF \E i \in 1..Len(LowerLetters) : LowerLetters[i] = c
    THEN UpperLetters[CHOOSE i \in 1..Len(LowerLetters) : LowerLetters[i] = c]
    ELSE IF c = LongS THEN "S" ELSE c

\* strings.ToLower, strings.ToUpper
ToLower(str) == [i \in 1..Len(str) |-> ToLowerChar(str[i])]
ToUpper(str) == [i \in 1..Len(str) |-> ToUpperChar(str[i])]

\* Go string order on the ids and type names in use.
AtomOrder == <<"", "go", "p1", "p2", "rust">>
AtomLess(a, b) ==
    (CHOOSE i \in 1..Len(AtomOrder) : AtomOrder[i] = a)
        < (CHOOSE i \in 1..Len(AtomOrder) : AtomOrder[i] = b)

HasType(p, t) == \E i \in 1..Len(p.Types.elems) : p.Types.elems[i] = t

HasTag(p, tag) == \E i \in 1..Len(p.Tags.elems) : p.Tags.elems[i] = tag

\* matchesQuery with a query that the caller has lower-cased.
matchesQuery(p, query) ==
    \/ Contains(ToLower(p.Name), query)
    \/ Contains(ToLower(p.Path), query)
    \/ \E i \in 1..Len(p.Tags.elems) :
          Contains(ToLower(p.Tags.elems[i]), query)

\* A search that returns nothing for the empty query.
SearchNothingForEmpty(ps, query) ==
    {SelectSeq(o, LAMBDA p : query # <<>> /\ matchesQuery(p, ToLower(query))) :
        o \in MapOrders(ps)}

\* The result lists Search(query) may return when the primary index is ps.
Search(ps, query) ==
    IF query = <<>> THEN MapOrders(ps)
    ELSE {SelectSeq(o, LAMBDA p : matchesQuery(p, ToLower(query))) :
             o \in MapOrders(ps)}

FilterOptions(status, types, tags, query, sortBy, descending) ==
    [Status |-> status, Types |-> types, Tags |-> tags, Query |-> query,
     SortBy |-> sortBy, Descending |-> descending]

\* A filter that asks for one of the tags instead of all of them.
matchesFilterAnyTag(p, opts) ==
    /\ ~(opts.Status # "" /\ p.Status # opts.Status)
    /\ ~(Len(opts.Types) > 0
          /\ ~\E i \in 1..Len(opts.Types) : HasType(p, opts.Types[i]))
    /\ (Len(opts.Tags) > 0 => \E i \in 1..Len(opts.Tags) : HasTag(p, opts.Tags[i]))
    /\ ~(opts.Query # <<>> /\ ~matchesQuery(p, ToLower(opts.Query)))

matchesFilter(p, opts) ==
    /\ ~(opts.Status # "" /\ p.Status # opts.Status)
    /\ ~(Len(opts.Types) > 0
          /\ ~\E i \in 1..Len(opts.Types) : HasType(p, opts.Types[i]))
    /\ \A i \in 1..Len(opts.Tags) : HasTag(p, opts.Tags[i])
    /\ ~(opts.Query # <<>> /\ ~matchesQuery(p, ToLower(opts.Query)))

SortByName == "name"
SortByPath == "path"
SortByLastAccessed == "last_accessed"
SortByAddedAt == "added_at"
SortByTypes == "types"

\* A comparison that leaves out the tiebreak on the id.
compareProjectsNoTiebreak(a, b, by) ==
    CASE by = SortByPath -> StrLess(a.Path, b.Path)
      [] by = SortByLastAccessed -> a.LastAccessed < b.LastAccessed
      [] by = SortByAddedAt -> a.AddedAt < b.AddedAt
      [] by = SortByTypes ->
            AtomLess(IF Len(a.Types.elems) > 0 THEN a.Types.elems[1] ELSE "",
                     IF Len(b.Types.elems) > 0 THEN b.Types.elems[1] ELSE "")
      [] OTHER -> StrLess(ToLower(a.Name), ToLower(b.Name))

compareProjects(a, b, by) ==
    LET t1 == IF Len(a.Types.elems) > 0 THEN a.Types.elems[1] ELSE ""
        t2 == IF Len(b.Types.elems) > 0 THEN b.Types.elems[1] ELSE ""
        n1 == ToLower(a.Name)
        n2 == ToLower(b.Name)
        less == CASE by = SortByPath -> StrLess(a.Path, b.Path)
                  [] by = SortByLastAccessed -> a.LastAccessed < b.LastAccessed
                  [] by = SortByAddedAt -> a.AddedAt < b.AddedAt
                  [] by = SortByTypes -> AtomLess(t1, t2)
                  [] OTHER -> StrLess(n1, n2)
        equal == CASE by = SortByPath -> a.Path = b.Path
                   [] by = SortByLastAccessed -> a.LastAccessed = b.LastAccessed
                   [] by = SortByAddedAt -> a.AddedAt = b.AddedAt
                   [] by = SortByTypes -> t1 = t2
                   [] OTHER -> n1 = n2
    IN IF equal THEN AtomLess(a.ID, b.ID) ELSE less

\* A less function that never reverses the comparison.
SortLessIgnoringDirection(a, b, by, descending) == compareProjects(a, b, by)

\* A less function that reverses the order on the field and keeps the
\* tiebreak on the id ascending.
SortLessKeepingTiebreak(a, b, by, descending) ==
    IF descending /\ (compareProjectsNoTiebreak(a, b, by)
                         \/ compareProjectsNoTiebreak(b, a, by))
    THEN compareProjectsNoTiebreak(b, a, by)
    ELSE compareProjects(a, b, by)

\* The less function sortProjects hands to sort.SliceStable.
SortLess(a, b, by, descending) ==
    IF descending THEN ~compareProjects(a, b, by) ELSE compareProjects(a, b, by)

RECURSIVE InsertBy(_, _, _, _)
\* One pass of the insertion sort: x moves left while it is less than its
\* left neighbour.
InsertBy(sorted, x, by, descending) ==
    IF sorted = <<>> THEN <<x>>
    ELSE LET last == sorted[Len(sorted)]
         IN IF SortLess(x, last, by, descending)
            THEN InsertBy(SubSeq(sorted, 1, Len(sorted) - 1), x, by, descending)
                 \o <<last>>
            ELSE sorted \o <<x>>

RECURSIVE SortStable(_, _, _)
SortStable(seq, by, descending) ==
    IF seq = <<>> THEN <<>>
    ELSE InsertBy(SortStable(SubSeq(seq, 1, Len(seq) - 1), by, descending),
                  seq[Len(seq)], by, descending)

\* sortProjects: an empty sort field means SortByName.
sortProjects(seq, by, descending) ==
    SortStable(seq, IF by = "" THEN SortByName ELSE by, descending)

\* A filter that walks the index twice.
FilterVisitingTwice(ps, opts) ==
    {sortProjects(SelectSeq(o \o o, LAMBDA p : matchesFilter(p, opts)),
                  opts.SortBy, opts.Descending) : o \in MapOrders(ps)}

\* The result lists Filter(opts) may return when the primary index is ps.
Filter(ps, opts) ==
    {sortProjects(SelectSeq(o, LAMBDA p : matchesFilter(p, opts)),
                  opts.SortBy, opts.Descending) : o \in MapOrders(ps)}

(***************************************************************************)
(* State                                                                   *)
(***************************************************************************)
VARIABLES
    projects,   \* YAMLCatalog.projects: id -> Project
    byPath,     \* YAMLCatalog.byPath: path -> id
    mu,         \* YAMLCatalog.mu: writer flag and number of readers
    fs,         \* the catalog file c.path and its sibling c.path + ".tmp"
    pc,         \* per goroutine: the statement it is at
    arg,        \* per goroutine: the argument (or marshalled data) in use
    given,      \* per goroutine: the caller's own record during Add/Update
    fd,         \* per goroutine: the file its open descriptor refers to
    ret,        \* what the call that returned last returned
    c_path,     \* YAMLCatalog.path: the name of the catalog file
    heap,       \* the backing arrays of slices, where sharing is modelled
    local       \* the caller's own variables, where they are modelled

vars == <<projects, byPath, mu, fs, pc, arg, given, fd, ret, c_path, heap,
          local>>

NoArg == <<>>
NoVal == <<>>

Result(op, err, val, n) ==
    [op |-> op, err |-> err, val |-> val, n |-> n, msg |-> <<>>]

\* An error returned with the text of its Error() method.
ErrorResult(op, err, msg) ==
    [op |-> op, err |-> err, val |-> NoVal, n |-> 0, msg |-> msg]

\* NewYAMLCatalog(p) on a path that has no file yet; every goroutine idle.
NewYAMLCatalog(p) ==
    /\ c_path = p
    /\ projects = EmptyMap
    /\ byPath = EmptyMap
    /\ mu = [w |-> FALSE, r |-> 0]
    /\ fs = [target |-> NoFile, tmp |-> NoFile]
    /\ pc = [t \in Threads |-> "idle"]
    /\ arg = [t \in Threads |-> NoArg]
    /\ given = [t \in Threads |-> NoArg]
    /\ fd = [t \in Threads |-> "none"]
    /\ ret = Result("NewYAMLCatalog", Ok, NoVal, 0)

\* Records carry their elements themselves: no backing arrays, no caller
\* variable.
InitAt(p) ==
    /\ NewYAMLCatalog(p)
    /\ heap = <<>>
    /\ local = NoVal

Init == InitAt(CatalogPath)

(***************************************************************************)
(* sync.RWMutex                                                            *)
(***************************************************************************)
CanLock == ~mu.w /\ mu.r = 0

\* A read lock that does not wait for the writer.
CanRLockIgnoringWriter == TRUE

CanRLock == ~mu.w

Locked == [mu EXCEPT !.w = TRUE]
Unlocked == [mu EXCEPT !.w = FALSE]
RLocked == [mu EXCEPT !.r = @ + 1]
RUnlocked == [mu EXCEPT !.r = @ - 1]

\* A goroutine returns err (and a value) from op and becomes idle again.
\* No method assigns c.path.
Return(t, op, err, val, n) ==
    /\ pc' = [pc EXCEPT ![t] = "idle"]
    /\ arg' = [arg EXCEPT ![t] = NoArg]
    /\ given' = [given EXCEPT ![t] = NoArg]
    /\ ret' = Result(op, err, val, n)
    /\ UNCHANGED <<c_path, heap, local>>

\* A goroutine returns an error wrapped by fmt.Errorf from op.
ReturnError(t, op, err, msg) ==
    /\ pc' = [pc EXCEPT ![t] = "idle"]
    /\ arg' = [arg EXCEPT ![t] = NoArg]
    /\ given' = [given EXCEPT ![t] = NoArg]
    /\ ret' = ErrorResult(op, err, msg)
    /\ UNCHANGED <<c_path, heap, local>>

\* A goroutine moves on to statement l inside the call it is in.
Goto(t, l, a) ==
    /\ pc' = [pc EXCEPT ![t] = l]
    /\ arg' = [arg EXCEPT ![t] = a]
    /\ UNCHANGED <<given, ret, c_path, heap, local>>

\* A goroutine enters Add or Update: the method works on the copy a of the
\* caller's record g.
Enter(t, l, a, g) ==
    /\ pc' = [pc EXCEPT ![t] = l]
    /\ arg' = [arg EXCEPT ![t] = a]
    /\ given' = [given EXCEPT ![t] = g]
    /\ UNCHANGED <<ret, c_path, heap, local>>

(***************************************************************************)
(* Add                                                                     *)
(***************************************************************************)
\* An Add that stores the record before it looks at the validation result.
AddCallStoreFirst(t, p) ==
    /\ pc[t] = "idle"
    /\ LET v == ValidateAndNormalize(p)
       IN IF v.err # Ok
          THEN /\ Return(t, "Add", v.err, NoVal, 0)
               /\ projects' = MapPut(projects, p.ID, p)
               /\ UNCHANGED mu
          ELSE /\ CanLock
               /\ mu' = Locked
               /\ Enter(t, "add", v.p, p)
               /\ UNCHANGED projects
    /\ UNCHANGED <<byPath, fs, fd>>

\* Validation, then c.mu.Lock().
AddCall(t, p) ==
    /\ pc[t] = "idle"
    /\ LET v == ValidateAndNormalize(p)
       IN IF v.err # Ok
          THEN /\ Return(t, "Add", v.err, NoVal, 0)
               /\ UNCHANGED mu
          ELSE /\ CanLock
               /\ mu' = Locked
               /\ Enter(t, "add", v.p, p)
    /\ UNCHANGED <<projects, byPath, fs, fd>>

\* Add split at c.mu.Lock(): validation on the copy, before the lock is asked
\* for.
AddValidate(t, p) ==
    /\ pc[t] = "idle"
    /\ LET v == ValidateAndNormalize(p)
       IN IF v.err # Ok
          THEN Return(t, "Add", v.err, NoVal, 0)
          ELSE Enter(t, "add_wait", v.p, p)
    /\ UNCHANGED <<projects, byPath, mu, fs, fd>>

\* A Lock that is granted while another goroutine holds the mutex.
AddLockNotExcluding(t) ==
    /\ pc[t] = "add_wait"
    /\ mu' = Locked
    /\ Goto(t, "add", arg[t])
    /\ UNCHANGED <<projects, byPath, fs, fd>>

\* c.mu.Lock() of a goroutine that has validated its record.
AddLock(t) ==
    /\ pc[t] = "add_wait"
    /\ CanLock
    /\ mu' = Locked
    /\ Goto(t, "add", arg[t])
    /\ UNCHANGED <<projects, byPath, fs, fd>>

\* An Add whose ErrAlreadyExists return leaves the mutex locked.
AddStoreKeepingLock(t) ==
    /\ pc[t] = "add"
    /\ LET p == arg[t]
       IN IF p.Path \in DOMAIN byPath
          THEN /\ Return(t, "Add", ErrAlreadyExists, NoVal, 0)
               /\ UNCHANGED <<mu, projects>>
          ELSE /\ projects' = MapPut(projects, p.ID, p)
               /\ Goto(t, "add_index", p)
               /\ UNCHANGED mu
    /\ UNCHANGED <<byPath, fs, fd>>

\* The byPath test and c.projects[p.ID] = p.
AddStore(t) ==
    /\ pc[t] = "add"
    /\ LET p == arg[t]
       IN IF p.Path \in DOMAIN byPath
          THEN /\ Return(t, "Add", ErrAlreadyExists, NoVal, 0)
               /\ mu' = Unlocked
               /\ UNCHANGED projects
          ELSE /\ projects' = MapPut(projects, p.ID, p)
               /\ Goto(t, "add_index", p)
               /\ UNCHANGED mu
    /\ UNCHANGED <<byPath, fs, fd>>

\* c.byPath[p.Path] = p.ID, return nil and the deferred Unlock.
AddIndex(t) ==
    /\ pc[t] = "add_index"
    /\ byPath' = MapPut(byPath, arg[t].Path, arg[t].ID)
    /\ mu' = Unlocked
    /\ Return(t, "Add", Ok, NoVal, 0)
    /\ UNCHANGED <<projects, fs, fd>>

(***************************************************************************)
(* Update                                                                  *)
(***************************************************************************)
UpdateCall(t, p) ==
    /\ pc[t] = "idle"
    /\ LET v == ValidateAndNormalize(p)
       IN IF v.err # Ok
          THEN /\ Return(t, "Update", v.err, NoVal, 0)
               /\ UNCHANGED mu
          ELSE /\ CanLock
               /\ mu' = Locked
               /\ Enter(t, "update", v.p, p)
    /\ UNCHANGED <<projects, byPath, fs, fd>>

\* An Update that stores a record whose id is not in the catalog.
UpdateIndexUpsert(t) ==
    /\ pc[t] = "update"
    /\ LET p == arg[t]
       IN IF p.ID \in DOMAIN projects /\ projects[p.ID].Path # p.Path
             /\ p.Path \in DOMAIN byPath /\ byPath[p.Path] # p.ID
          THEN /\ Return(t, "Update", ErrAlreadyExists, NoVal, 0)
               /\ mu' = Unlocked
               /\ UNCHANGED byPath
          ELSE /\ byPath' = MapPut(byPath, p.Path, p.ID)
               /\ Goto(t, "update_store", p)
               /\ UNCHANGED mu
    /\ UNCHANGED <<projects, fs, fd>>

\* An Update that leaves the mapping of the old path in place.
UpdateIndexKeepOld(t) ==
    /\ pc[t] = "update"
    /\ LET p == arg[t]
       IN IF p.ID \notin DOMAIN projects
          THEN /\ Return(t, "Update", ErrNotFound, NoVal, 0)
               /\ mu' = Unlocked
               /\ UNCHANGED byPath
          ELSE IF /\ projects[p.ID].Path # p.Path
                  /\ p.Path \in DOMAIN byPath /\ byPath[p.Path] # p.ID
               THEN /\ Return(t, "Update", ErrAlreadyExists, NoVal, 0)
                    /\ mu' = Unlocked
                    /\ UNCHANGED byPath
               ELSE /\ byPath' = MapPut(byPath, p.Path, p.ID)
                    /\ Goto(t, "update_store", p)
                    /\ UNCHANGED mu
    /\ UNCHANGED <<projects, fs, fd>>

\* The lookup, the conflict test and the two byPath statements.
UpdateIndex(t) ==
    /\ pc[t] = "update"
    /\ LET p == arg[t]
       IN IF p.ID \notin DOMAIN projects
          THEN /\ Return(t, "Update", ErrNotFound, NoVal, 0)
               /\ mu' = Unlocked
               /\ UNCHANGED byPath
          ELSE LET existing == projects[p.ID]
               IN IF existing.Path # p.Path
                  THEN IF p.Path \in DOMAIN byPath /\ byPath[p.Path] # p.ID
                       THEN /\ Return(t, "Update", ErrAlreadyExists, NoVal, 0)
                            /\ mu' = Unlocked
                            /\ UNCHANGED byPath
                       ELSE /\ byPath' = MapPut(MapDel(byPath, existing.Path),
                                                p.Path, p.ID)
                            /\ Goto(t, "update_store", p)
                            /\ UNCHANGED mu
                  ELSE /\ Goto(t, "update_store", p)
                       /\ UNCHANGED <<mu, byPath>>
    /\ UNCHANGED <<projects, fs, fd>>

\* An Update that replaces the primary index by one that holds its record
\* only.
UpdateStoreAlone(t) ==
    /\ pc[t] = "update_store"
    /\ projects' = MapPut(EmptyMap, arg[t].ID, arg[t])
    /\ mu' = Unlocked
    /\ Return(t, "Update", Ok, NoVal, 0)
    /\ UNCHANGED <<byPath, fs, fd>>

\* c.projects[p.ID] = p, return nil and the deferred Unlock.
UpdateStore(t) ==
    /\ pc[t] = "update_store"
    /\ projects' = MapPut(projects, arg[t].ID, arg[t])
    /\ mu' = Unlocked
    /\ Return(t, "Update", Ok, NoVal, 0)
    /\ UNCHANGED <<byPath, fs, fd>>

(***************************************************************************)
(* Remove                                                                  *)
(***************************************************************************)
RemoveCall(t, id) ==
    /\ pc[t] = "idle"
    /\ CanLock
    /\ mu' = Locked
    /\ Goto(t, "remove", [ID |-> id])
    /\ UNCHANGED <<projects, byPath, fs, fd>>

\* The lookup and delete(c.projects, id); the argument becomes the record.
RemoveStore(t) ==
    /\ pc[t] = "remove"
    /\ IF arg[t].ID \notin DOMAIN projects
       THEN /\ Return(t, "Remove", ErrNotFound, NoVal, 0)
            /\ mu' = Unlocked
            /\ UNCHANGED projects
       ELSE /\ projects' = MapDel(projects, arg[t].ID)
            /\ Goto(t, "remove_index", projects[arg[t].ID])
            /\ UNCHANGED mu
    /\ UNCHANGED <<byPath, fs, fd>>

\* delete(c.byPath, p.Path), return nil and the deferred Unlock.
RemoveIndex(t) ==
    /\ pc[t] = "remove_index"
    /\ byPath' = MapDel(byPath, arg[t].Path)
    /\ mu' = Unlocked
    /\ Return(t, "Remove", Ok, NoVal, 0)
    /\ UNCHANGED <<projects, fs, fd>>

(***************************************************************************)
(* Readers                                                                 *)
(***************************************************************************)
GetCall(t, id) ==
    /\ pc[t] = "idle"
    /\ CanRLock
    /\ mu' = RLocked
    /\ Goto(t, "get", [ID |-> id])
    /\ UNCHANGED <<projects, byPath, fs, fd>>

\* What Get(id) returns when the primary index is ps.
Get(ps, id) ==
    IF id \in DOMAIN ps
    THEN [err |-> Ok, p |-> ps[id]]
    ELSE [err |-> ErrNotFound, p |-> ZeroProject]

GetBody(t) ==
    /\ pc[t] = "get"
    /\ LET g == Get(projects, arg[t].ID)
       IN Return(t, "Get", g.err, <<g.p>>, 0)
    /\ mu' = RUnlocked
    /\ UNCHANGED <<projects, byPath, fs, fd>>

GetByPathCall(t, path) ==
    /\ pc[t] = "idle"
    /\ CanRLock
    /\ mu' = RLocked
    /\ Goto(t, "get_by_path", [Path |-> path])
    /\ UNCHANGED <<projects, byPath, fs, fd>>

\* What GetByPath(p) returns when the indices are ps and bp.
\* c.projects[id] of an id that is not a key is the zero Project.
GetByPath(ps, bp, p) ==
    IF p \in DOMAIN bp
    THEN [err |-> Ok,
          p |-> IF bp[p] \in DOMAIN ps THEN ps[bp[p]] ELSE ZeroProject]
    ELSE [err |-> ErrNotFound, p |-> ZeroProject]

GetByPathBody(t) ==
    /\ pc[t] = "get_by_path"
    /\ LET g == GetByPath(projects, byPath, arg[t].Path)
       IN Return(t, "GetByPath", g.err, <<g.p>>, 0)
    /\ mu' = RUnlocked
    /\ UNCHANGED <<projects, byPath, fs, fd>>

ListCall(t) ==
    /\ pc[t] = "idle"
    /\ CanRLock
    /\ mu' = RLocked
    /\ Goto(t, "list", NoArg)
    /\ UNCHANGED <<projects, byPath, fs, fd>>

\* A listing that walks the secondary index and looks each id up.
listByPath ==
    {[i \in 1..Len(o) |-> projects[o[i]]] : o \in MapOrders(byPath)}

\* listUnlocked: the values of c.projects in map iteration order.
listUnlocked == MapOrders(projects)

ListBody(t) ==
    /\ pc[t] = "list"
    /\ \E o \in listUnlocked : Return(t, "List", Ok, o, Len(o))
    /\ mu' = RUnlocked
    /\ UNCHANGED <<projects, byPath, fs, fd>>

CountCall(t) ==
    /\ pc[t] = "idle"
    /\ CanRLock
    /\ mu' = RLocked
    /\ Goto(t, "count", NoArg)
    /\ UNCHANGED <<projects, byPath, fs, fd>>

\* len(c.projects)
Count == Cardinality(DOMAIN projects)

CountBody(t) ==
    /\ pc[t] = "count"
    /\ Return(t, "Count", Ok, NoVal, Count)
    /\ mu' = RUnlocked
    /\ UNCHANGED <<projects, byPath, fs, fd>>

SearchCall(t, query) ==
    /\ pc[t] = "idle"
    /\ CanRLock
    /\ mu' = RLocked
    /\ Goto(t, "search", [Query |-> query])
    /\ UNCHANGED <<projects, byPath, fs, fd>>

SearchBody(t) ==
    /\ pc[t] = "search"
    /\ \E r \in Search(projects, arg[t].Query) : Return(t, "Search", Ok, r, Len(r))
    /\ mu' = RUnlocked
    /\ UNCHANGED <<projects, byPath, fs, fd>>

FilterCall(t, opts) ==
    /\ pc[t] = "idle"
    /\ CanRLock
    /\ mu' = RLocked
    /\ Goto(t, "filter", opts)
    /\ UNCHANGED <<projects, byPath, fs, fd>>

FilterBody(t) ==
    /\ pc[t] = "filter"
    /\ \E r \in Filter(projects, arg[t]) : Return(t, "Filter", Ok, r, Len(r))
    /\ mu' = RUnlocked
    /\ UNCHANGED <<projects, byPath, fs, fd>>

(***************************************************************************)
(* Save                                                                    *)
(***************************************************************************)
TmpPath == "tmp"
TargetPath == "target"

\* c.mu.RLock(), the snapshot, the sort and yaml.Marshal.
SaveCall(t) ==
    /\ pc[t] = "idle"
    /\ CanRLock
    /\ mu' = RLocked
    /\ \E data \in SaveData(projects) : Goto(t, "save_open", [data |-> data])
    /\ UNCHANGED <<projects, byPath, fs, fd>>

\* os.WriteFile, first half: open(tmpPath, O_WRONLY|O_CREATE|O_TRUNC).
SaveOpen(t) ==
    /\ pc[t] = "save_open"
    /\ fs' = [fs EXCEPT !.tmp = FileOf(<<>>)]
    /\ fd' = [fd EXCEPT ![t] = TmpPath]
    /\ Goto(t, "save_write", arg[t])
    /\ UNCHANGED <<projects, byPath, mu>>

\* A write of data at offset 0 of a file that holds old.
WriteAt0(old, data) == data \o SubSeq(old, Len(data) + 1, Len(old))

\* os.WriteFile, second half: write(fd, data) and close(fd).
SaveWrite(t) ==
    /\ pc[t] = "save_write"
    /\ fs' = IF fd[t] = TmpPath
             THEN [fs EXCEPT !.tmp = FileOf(WriteAt0(fs.tmp.data, arg[t].data))]
             ELSE IF fd[t] = TargetPath
             THEN [fs EXCEPT
                      !.target = FileOf(WriteAt0(fs.target.data, arg[t].data))]
             ELSE fs
    /\ fd' = [fd EXCEPT ![t] = "none"]
    /\ Goto(t, "save_rename", arg[t])
    /\ UNCHANGED <<projects, byPath, mu>>

\* os.Rename(tmpPath, c.path), return and the deferred RUnlock.  A
\* descriptor another goroutine holds on the renamed file follows the file.
SaveRename(t) ==
    /\ pc[t] = "save_rename"
    /\ IF fs.tmp.exists
       THEN /\ fs' = [target |-> fs.tmp, tmp |-> NoFile]
            /\ fd' = [u \in Threads |->
                        IF fd[u] = TmpPath THEN TargetPath
                        ELSE IF fd[u] = TargetPath THEN "orphan"
                        ELSE fd[u]]
            /\ Return(t, "Save", Ok, NoVal, 0)
       ELSE /\ Return(t, "Save", ErrRename, NoVal, 0)
            /\ UNCHANGED <<fs, fd>>
    /\ mu' = RUnlocked
    /\ UNCHANGED <<projects, byPath>>

(***************************************************************************)
(* Load                                                                    *)
(***************************************************************************)
LoadCall(t) ==
    /\ pc[t] = "idle"
    /\ CanLock
    /\ mu' = Locked
    /\ Goto(t, "load", NoArg)
    /\ UNCHANGED <<projects, byPath, fs, fd>>

\* Load filling the maps it already has instead of making new ones.
FreshIndicesKeepingOld == [projects |-> projects, byPath |-> byPath]

\* The two maps Load makes before its loop.
FreshIndices == [projects |-> EmptyMap, byPath |-> EmptyMap]

\* A Load that makes the two new maps before it reads the file.
LoadBodyMakingFirst(t) ==
    /\ pc[t] = "load"
    /\ IF ~fs.target.exists
       THEN /\ Return(t, "Load", Ok, NoVal, 0)
            /\ UNCHANGED <<projects, byPath>>
       ELSE \/ /\ ReturnError(t, "Load", ErrRead, ReadErrorMessage(c_path))
               /\ projects' = FreshIndices.projects
               /\ byPath' = FreshIndices.byPath
            \/ LET u == Unmarshal(fs.target.data)
               IN IF u.err # Ok
                  THEN /\ ReturnError(t, "Load", ErrParse,
                                      ParseErrorMessage(c_path))
                       /\ projects' = FreshIndices.projects
                       /\ byPath' = FreshIndices.byPath
                  ELSE LET idx == LoadIndices(FreshIndices, u.file.Projects)
                       IN /\ projects' = idx.projects
                          /\ byPath' = idx.byPath
                          /\ Return(t, "Load", Ok, NoVal, 0)
    /\ mu' = Unlocked
    /\ UNCHANGED <<fs, fd>>

\* os.ReadFile, yaml.Unmarshal, the rebuild of both maps, the deferred Unlock.
LoadBody(t) ==
    /\ pc[t] = "load"
    /\ IF ~fs.target.exists
       THEN /\ Return(t, "Load", Ok, NoVal, 0)
            /\ UNCHANGED <<projects, byPath>>
       ELSE \/ /\ ReturnError(t, "Load", ErrRead, ReadErrorMessage(c_path))
               /\ UNCHANGED <<projects, byPath>>
            \/ LET u == Unmarshal(fs.target.data)
               IN IF u.err # Ok
                  THEN /\ ReturnError(t, "Load", ErrParse,
                                      ParseErrorMessage(c_path))
                       /\ UNCHANGED <<projects, byPath>>
                  ELSE LET idx == LoadIndices(FreshIndices, u.file.Projects)
                       IN /\ projects' = idx.projects
                          /\ byPath' = idx.byPath
                          /\ Return(t, "Load", Ok, NoVal, 0)
    /\ mu' = Unlocked
    /\ UNCHANGED <<fs, fd>>

(***************************************************************************)
(* Environment: another program writes the catalog file while no call of   *)
(* this engine is in progress.                                             *)
(***************************************************************************)
ExternalWrite(bytes) ==
    /\ \A t \in Threads : pc[t] = "idle"
    /\ fs' = [fs EXCEPT !.target = FileOf(bytes)]
    /\ UNCHANGED <<projects, byPath, mu, pc, arg, given, fd, ret, c_path,
                   heap, local>>

\* One step of a goroutine of T, with arguments drawn from the given sets.
Step(T, inputs, ids, paths, files) ==
    \/ \E t \in T, p \in inputs : AddCall(t, p)
    \/ \E t \in T : AddStore(t)
    \/ \E t \in T : AddIndex(t)
    \/ \E t \in T, p \in inputs : UpdateCall(t, p)
    \/ \E t \in T : UpdateIndex(t)
    \/ \E t \in T : UpdateStore(t)
    \/ \E t \in T, id \in ids : RemoveCall(t, id)
    \/ \E t \in T : RemoveStore(t)
    \/ \E t \in T : RemoveIndex(t)
    \/ \E t \in T, id \in ids : GetCall(t, id)
    \/ \E t \in T : GetBody(t)
    \/ \E t \in T, path \in paths : GetByPathCall(t, path)
    \/ \E t \in T : GetByPathBody(t)
    \/ \E t \in T : ListCall(t)
    \/ \E t \in T : ListBody(t)
    \/ \E t \in T : CountCall(t)
    \/ \E t \in T : CountBody(t)
    \/ \E t \in T : SaveCall(t)
    \/ \E t \in T : SaveOpen(t)
    \/ \E t \in T : SaveWrite(t)
    \/ \E t \in T : SaveRename(t)
    \/ \E t \in T : LoadCall(t)
    \/ \E t \in T : LoadBody(t)
    \/ \E bytes \in files : ExternalWrite(bytes)

\* One caller at a time, the full input domain.
Next == Step({"t1"}, InputProjects, Ids, Paths, ExternalFiles)

Spec == Init /\ [][Next]_vars

\* Two concurrent callers, valid records only.
ConcInputs == {NewProject(id, NameA, path, 0) : id \in Ids, path \in {PathA, PathB}}
ConcFiles == {<<VersionToken(1), GarbageToken>>}

NextConc == Step(Threads, ConcInputs, Ids, {PathA}, ConcFiles)

SpecConc == Init /\ [][NextConc]_vars

\* One caller, valid records, and a catalog file that names p2 at a
\* directory which is no longer on disk.
FrameFiles ==
    {<<VersionToken(1), ExternalProject("p2", PathGone)>>}

NextFrame == Step({"t1"}, ConcInputs, Ids, {PathA, PathGone}, FrameFiles)

SpecFrame == Init /\ [][NextFrame]_vars

(***************************************************************************)
(* ValidateAndNormalize called directly on a record, possibly repeatedly   *)
(***************************************************************************)
\* Number of calls made on one record.
MaxValidateCalls == 2

NameEmpty == <<>>
NamePadded == <<" ", "a", " ">>
ValidateInputs ==
    HandMadeProjects({"p1"}, Names \cup {NameEmpty, NamePadded}, Paths,
                     InputTags, InputStatuses)

\* A caller builds the record p.
ValidateCall(t, p) ==
    /\ pc[t] \in {"idle", "validated"}
    /\ Enter(t, "validate", p, p)
    /\ UNCHANGED <<projects, byPath, mu, fs, fd>>

\* p.ValidateAndNormalize(): the receiver is rewritten in place; ret.n
\* counts the calls made on this record.
ValidateBody(t) ==
    /\ pc[t] \in {"validate", "validated"}
    /\ LET calls == IF pc[t] = "validate" THEN 0 ELSE ret.n
           v == ValidateAndNormalize(arg[t])
       IN /\ calls < MaxValidateCalls
          /\ pc' = [pc EXCEPT ![t] = "validated"]
          /\ arg' = [arg EXCEPT ![t] = v.p]
          /\ ret' = Result("ValidateAndNormalize", v.err, NoVal, calls + 1)
    /\ UNCHANGED <<projects, byPath, mu, fs, fd, given, c_path, heap, local>>

NextValidate ==
    \/ \E p \in ValidateInputs : ValidateCall("t1", p)
    \/ ValidateBody("t1")

SpecValidate == Init /\ [][NextValidate]_vars

(***************************************************************************)
(* One caller who also searches and filters                                *)
(***************************************************************************)
NameUpper == <<"A", "b">>
NameLongS == <<LongS>>
TagS == <<"s">>
TagT == <<"t">>
TypeGo == "go"
TypeRust == "rust"

\* Three kinds of record, as the builders make them.
GoProject(id) ==
    [NewProject(id, NameA, PathA, 0) EXCEPT
        !.Types = MkSlice(<<TypeGo>>), !.Tags = MkSlice(<<TagS>>),
        !.LastAccessed = 1]

RustProject(id) ==
    [NewProject(id, NameUpper, PathB, 1) EXCEPT
        !.Types = MkSlice(<<TypeRust, TypeGo>>),
        !.Tags = MkSlice(<<TagT, TagS>>),
        !.Status = StatusArchived, !.LastAccessed = 1]

PlainProject(id) == NewProject(id, NameLongS, PathB, 0)

SearchInputs ==
    UNION {{GoProject(id), RustProject(id), PlainProject(id)} : id \in Ids}

Queries == {<<>>, <<"a">>, <<"A">>, <<"s">>, <<LongS>>, <<"/", "b">>, <<"x">>}

SortFields ==
    {"", SortByName, SortByPath, SortByLastAccessed, SortByAddedAt, SortByTypes}

\* Options values that select: every combination of the statuses, types,
\* tags and queries in use, sorted by name.
SelectingOptions ==
    {FilterOptions(status, types, tags, query, SortByName, FALSE) :
        status \in {"", StatusActive, StatusArchived},
        types \in {<<>>, <<TypeRust>>, <<TypeGo, TypeRust>>},
        tags \in {<<>>, <<TagS>>, <<TagS, TagT>>},
        query \in {<<>>, <<"A">>}}

\* Options values that order: every sort field in both directions.
OrderingOptions ==
    {FilterOptions(status, <<>>, <<>>, <<>>, sortBy, descending) :
        status \in {"", StatusActive},
        sortBy \in SortFields,
        descending \in BOOLEAN}

AllFilterOptions == SelectingOptions \cup OrderingOptions

\* The options values the modelled caller passes.
CalledFilterOptions ==
    {FilterOptions("", <<>>, <<>>, <<>>, sortBy, descending) :
        sortBy \in SortFields, descending \in BOOLEAN}
    \cup {FilterOptions(StatusActive, <<TypeGo, TypeRust>>, <<TagS>>, <<"A">>,
                        SortByName, FALSE)}

SearchFiles == {<<VersionToken(1), ProjectToken(MarshalProject(GoProject("p2")))>>}

\* The calls that change the catalog, List, Search and Filter.
NextSearch ==
    \/ \E p \in SearchInputs : AddCall("t1", p)
    \/ AddStore("t1")
    \/ AddIndex("t1")
    \/ \E p \in SearchInputs : UpdateCall("t1", p)
    \/ UpdateIndex("t1")
    \/ UpdateStore("t1")
    \/ \E id \in Ids : RemoveCall("t1", id)
    \/ RemoveStore("t1")
    \/ RemoveIndex("t1")
    \/ LoadCall("t1")
    \/ LoadBody("t1")
    \/ \E bytes \in SearchFiles : ExternalWrite(bytes)
    \/ ListCall("t1")
    \/ ListBody("t1")
    \/ \E query \in Queries : SearchCall("t1", query)
    \/ SearchBody("t1")
    \/ \E opts \in CalledFilterOptions : FilterCall("t1", opts)
    \/ FilterBody("t1")

SpecSearch == Init /\ [][NextSearch]_vars

(***************************************************************************)
(* Two concurrent callers of every public method under a fair scheduler    *)
(***************************************************************************)
FairInputs == {NewProject(id, NameA, PathA, 0) : id \in Ids}
FairQueries == {<<"a">>}
FairOptions == {FilterOptions("", <<>>, <<>>, <<>>, SortByName, FALSE)}

\* One step of goroutine t.
GoroutineNext(t) ==
    \/ Step({t}, FairInputs, {"p1"}, {PathA}, ConcFiles)
    \/ \E query \in FairQueries : SearchCall(t, query)
    \/ SearchBody(t)
    \/ \E opts \in FairOptions : FilterCall(t, opts)
    \/ FilterBody(t)

NextFair == \E t \in Threads : GoroutineNext(t)

\* A goroutine that can move on to its next statement is not passed over
\* for ever.
SpecFair ==
    /\ Init
    /\ [][NextFair]_vars
    /\ \A t \in Threads : WF_pc(GoroutineNext(t))

(***************************************************************************)
(* Two goroutines that add records with different ids and one path, the    *)
(* calls overlapping.  One goroutine first brings the engine into some     *)
(* state that does not hold the path.  local[t] is "ready" before          *)
(* goroutine t is started, "running" until its Add has returned, and then  *)
(* the error its Add returned.                                             *)
(***************************************************************************)
RacePath == PathA

RaceRecord(t) == NewProject(IF t = "t1" THEN "p1" ELSE "p2", NameA, RacePath, 0)

InitRace ==
    /\ NewYAMLCatalog(CatalogPath)
    /\ heap = <<>>
    /\ local = [t \in Threads |-> "ready"]

\* A started goroutine that has not made its call yet, or whose result has
\* not been taken yet.
Uninvoked(t) == local[t] = "running" /\ pc[t] = "idle" /\ ret.op = "go"
Uncollected(t) == local[t] = "running" /\ pc[t] = "idle" /\ ret.op = "Add"
Settled == \A t \in Threads : ~Uninvoked(t) /\ ~Uncollected(t)

\* go func() { errs[t] = c.Add(r) }(): the first goroutine starts when the
\* engine is at rest and does not hold the path, the second one while the
\* first one's call is in progress.
Go(t) ==
    /\ Settled
    /\ local[t] = "ready"
    /\ \A u \in Threads \ {t} :
          \/ /\ local[u] = "ready"
             /\ \A w \in Threads : pc[w] = "idle"
             /\ RacePath \notin DOMAIN byPath
             /\ \A id \in DOMAIN projects : projects[id].Path # RacePath
          \/ /\ local[u] = "running"
             /\ pc[u] # "idle"
    /\ local' = [local EXCEPT ![t] = "running"]
    /\ ret' = Result("go", Ok, NoVal, 0)
    /\ UNCHANGED <<projects, byPath, mu, fs, pc, arg, given, fd, c_path, heap>>

\* The goroutine keeps the error its Add returned.
Collect(t) ==
    /\ Uncollected(t)
    /\ local' = [local EXCEPT ![t] = ret.err]
    /\ UNCHANGED <<projects, byPath, mu, fs, pc, arg, given, fd, ret, c_path,
                   heap>>

NextRace ==
    \/ /\ \A t \in Threads : local[t] = "ready"
       /\ Step({"t1"}, ConcInputs, Ids, {PathA}, ConcFiles)
    \/ \E t \in Threads : Go(t)
    \/ \E t \in Threads : Uninvoked(t) /\ AddValidate(t, RaceRecord(t))
    \/ \E t \in Threads : Settled /\ AddLock(t)
    \/ \E t \in Threads : Settled /\ local[t] = "running" /\ AddStore(t)
    \/ \E t \in Threads : Settled /\ local[t] = "running" /\ AddIndex(t)
    \/ \E t \in Threads : Collect(t)

SpecRace == InitRace /\ [][NextRace]_vars

(***************************************************************************)
(* One caller handing in hand-made records, a catalog file of any name     *)
(***************************************************************************)
\* A project entry without an id key, as a hand-edited file may hold.
MissingIDToken ==
    ProjectToken([k \in {"name", "path"} |-> IF k = "name" THEN NameA ELSE PathB])

\* A project entry whose status is none of the three, as in invalidTypesGen.
BogusStatusToken ==
    ProjectToken(MarshalProject(
        WithTagsStatus(NewProject("p1", NameA, PathB, 0), NilSlice, StatusBogus)))

InputFiles ==
    {<<VersionToken(1), GarbageToken>>, <<VersionToken(1), MissingIDToken>>,
     <<VersionToken(1), BogusStatusToken>>}

InputIds == {"p1", ""}

InitInput == \E p \in CatalogPaths : InitAt(p)

EngineInputs ==
    HandMadeProjects(InputIds, Names, Paths \ {PathB},
                     {NilSlice, MkSlice(<<TagValid, TagBlank, TagPadded>>)},
                     {StatusActive, StatusBogus})

NextInput == Step({"t1"}, EngineInputs, InputIds, {PathA}, InputFiles)

SpecInput == InitInput /\ [][NextInput]_vars

(***************************************************************************)
(* Slices with backing arrays.  Here a slice is a header [nil, ptr, len]   *)
(* and heap[ptr] is its backing array, so that two headers with one ptr    *)
(* share their elements as two Go slices over one array do.  A slice of    *)
(* length 0 made by make or by a literal has ptr 0: it has no elements to  *)
(* share.  The caller builds records with NewProject and the builders,     *)
(* hands them to Add, reads them back with Get and List, and writes to     *)
(* what it holds.                                                          *)
(***************************************************************************)
MaxArrays == 4

HeapNil == [nil |-> TRUE, ptr |-> 0, len |-> 0]
HeapSlice(ptr, len) == [nil |-> FALSE, ptr |-> ptr, len |-> len]

\* The elements a slice shows.
Deref(h, s) == IF s.nil \/ s.len = 0 THEN <<>> ELSE SubSeq(h[s.ptr], 1, s.len)

\* make([]T, len(content)) followed by copy.
Make(h, content) ==
    IF content = <<>> THEN [heap |-> h, slice |-> HeapSlice(0, 0)]
    ELSE [heap |-> Append(h, content),
          slice |-> HeapSlice(Len(h) + 1, Len(content))]

\* A record with its slices read out, in the form [nil, elems].
ValueOf(h, p) ==
    [p EXCEPT !.Types = [nil |-> p.Types.nil, elems |-> Deref(h, p.Types)],
              !.Tags = [nil |-> p.Tags.nil, elems |-> Deref(h, p.Tags)]]

\* NewProject: Types is the literal []ProjectType{}, Tags is not set.
NewProjectOnHeap(id, name, path, now) ==
    [NewProject(id, name, path, now) EXCEPT
        !.Types = HeapSlice(0, 0), !.Tags = HeapNil]

WithTypes(h, p, types) ==
    LET ty == Make(h, Deref(h, types))
        ta == Make(ty.heap, Deref(ty.heap, p.Tags))
    IN [heap |-> ta.heap, p |-> [p EXCEPT !.Types = ty.slice, !.Tags = ta.slice]]

WithTags(h, p, tags) ==
    LET ta == Make(h, Deref(h, tags))
        ty == Make(ta.heap, Deref(ta.heap, p.Types))
    IN [heap |-> ty.heap, p |-> [p EXCEPT !.Tags = ta.slice, !.Types = ty.slice]]

\* newP := p with both slices made anew and copied, as the four builders of
\* a scalar field do after their assignment.
CopySlices(h, newP) ==
    LET ty == Make(h, Deref(h, newP.Types))
        ta == Make(ty.heap, Deref(ty.heap, newP.Tags))
    IN [heap |-> ta.heap,
        p |-> [newP EXCEPT !.Types = ty.slice, !.Tags = ta.slice]]

\* A builder that returns newP := p as it is.
WithStatusSharing(h, p, status) ==
    [heap |-> h, p |-> [p EXCEPT !.Status = status]]

WithStatus(h, p, status) == CopySlices(h, [p EXCEPT !.Status = status])

WithNotes(h, p, notes) == CopySlices(h, [p EXCEPT !.Notes = notes])

WithGitRemote(h, p, remote) == CopySlices(h, [p EXCEPT !.GitRemote = remote])

WithDescription(h, p, description) ==
    CopySlices(h, [p EXCEPT !.Description = description])

\* The position of the first element of a slice that equals tag, 0 if none.
IndexOfTag(h, s, tag) ==
    LET e == Deref(h, s)
    IN IF \E i \in 1..Len(e) : e[i] = tag
       THEN CHOOSE i \in 1..Len(e) : e[i] = tag /\ \A j \in 1..(i - 1) : e[j] # tag
       ELSE 0

\* p.RemoveTag(tag): append(p.Tags[:i], p.Tags[i+1:]...) moves the elements
\* after i one place down inside the same array and shortens the header.
RemoveTag(h, p, tag) ==
    LET i == IndexOfTag(h, p.Tags, tag)
        n == p.Tags.len
    IN IF i = 0 THEN [heap |-> h, p |-> p]
       ELSE [heap |-> [h EXCEPT ![p.Tags.ptr] =
                         [j \in 1..Len(@) |->
                            IF j >= i /\ j < n THEN @[j + 1] ELSE @[j]]],
             p |-> [p EXCEPT !.Tags.len = n - 1]]

\* s[i] = v
SetElem(h, s, i, v) == [h EXCEPT ![s.ptr][i] = v]

\* The caller's argument slices: tags at heap[1], types at heap[2].
ArgTags == HeapSlice(1, 2)
ArgTypes == HeapSlice(2, 1)
TagX == <<"x">>

InitHeap ==
    /\ NewYAMLCatalog(CatalogPath)
    /\ heap = <<<<TagS, TagT>>, <<TypeGo>>>>
    /\ local = NoVal

BuilderNames ==
    {"WithTypes", "WithTags", "WithStatus", "WithNotes", "WithGitRemote",
     "WithDescription"}

\* What the builder named b returns for the receiver p.
Build(h, p, b) ==
    CASE b = "WithTypes" -> WithTypes(h, p, ArgTypes)
      [] b = "WithTags" -> WithTags(h, p, ArgTags)
      [] b = "WithStatus" -> WithStatus(h, p, StatusArchived)
      [] b = "WithNotes" -> WithNotes(h, p, "n")
      [] b = "WithGitRemote" -> WithGitRemote(h, p, "r")
      [] b = "WithDescription" -> WithDescription(h, p, "d")

\* The records the caller holds: the ones the last call returned, and its
\* own variable.
Returned ==
    IF /\ ret.err = Ok
       /\ ret.op \in BuilderNames \cup {"NewProject", "Project", "Get", "List"}
    THEN ret.val ELSE <<>>

Held == {Returned[k] : k \in 1..Len(Returned)}
          \cup (IF local = NoVal THEN {} ELSE {local})

\* A call that leaves the catalog alone returns: only ret (and the heap)
\* change.
CallerReturns(op, val, h) ==
    /\ \A t \in Threads : pc[t] = "idle"
    /\ Len(h) <= MaxArrays
    /\ heap' = h
    /\ ret' = Result(op, Ok, val, Len(val))
    /\ UNCHANGED <<projects, byPath, mu, fs, pc, arg, given, fd, c_path>>

NewProjectCall(id) ==
    /\ CallerReturns("NewProject", <<NewProjectOnHeap(id, NameA, PathA, 0)>>, heap)
    /\ UNCHANGED local

\* The caller writes a Project{...} literal that names no tags and no types.
LiteralCall(id) ==
    /\ CallerReturns("Project",
                     <<[NewProjectOnHeap(id, NameA, PathA, 0) EXCEPT
                           !.Types = HeapNil]>>, heap)
    /\ UNCHANGED local

\* q := p.With...(): the receiver p is a record the caller holds and stays
\* in its variable, the result is what the call returns.
BuilderCall(b) ==
    \E p \in Held :
        LET r == Build(heap, p, b)
        IN /\ CallerReturns(b, <<r.p>>, r.heap)
           /\ local' = p

\* The caller calls RemoveTag on the k-th record it was returned.
RemoveTagReturned(k, tag) ==
    /\ \A t \in Threads : pc[t] = "idle"
    /\ k \in 1..Len(Returned)
    /\ LET r == RemoveTag(heap, Returned[k], tag)
       IN /\ heap' = r.heap
          /\ ret' = [ret EXCEPT !.val[k] = r.p]
    /\ UNCHANGED <<projects, byPath, mu, fs, pc, arg, given, fd, c_path, local>>

\* The caller assigns to an element of the tags or types of the k-th record
\* it was returned.
WriteReturned(k, field, i, v) ==
    /\ \A t \in Threads : pc[t] = "idle"
    /\ k \in 1..Len(Returned)
    /\ ~Returned[k][field].nil
    /\ i \in 1..Returned[k][field].len
    /\ heap' = SetElem(heap, Returned[k][field], i, v)
    /\ UNCHANGED <<projects, byPath, mu, fs, pc, arg, given, fd, ret, c_path,
                   local>>

\* The caller assigns to an element of the tags or types of its variable.
WriteLocal(field, i, v) ==
    /\ \A t \in Threads : pc[t] = "idle"
    /\ local # NoVal
    /\ ~local[field].nil
    /\ i \in 1..local[field].len
    /\ heap' = SetElem(heap, local[field], i, v)
    /\ UNCHANGED <<projects, byPath, mu, fs, pc, arg, given, fd, ret, c_path,
                   local>>

\* The caller assigns to an element of a slice it passed as an argument.
WriteArg(s, i, v) ==
    /\ \A t \in Threads : pc[t] = "idle"
    /\ i \in 1..s.len
    /\ heap' = SetElem(heap, s, i, v)
    /\ UNCHANGED <<projects, byPath, mu, fs, pc, arg, given, fd, ret, c_path,
                   local>>

\* Add(p): p is copied into the parameter, slices and all; ValidateAndNormalize
\* hands the copy a new tags array and leaves its types where they are.
AddCallOnHeap(t, p) ==
    /\ pc[t] = "idle"
    /\ LET v == ValidateAndNormalize(ValueOf(heap, p))
           clean == Make(heap, v.p.Tags.elems)
       IN IF v.err # Ok
          THEN /\ Return(t, "Add", v.err, NoVal, 0)
               /\ UNCHANGED mu
          ELSE /\ CanLock
               /\ mu' = Locked
               /\ Len(clean.heap) <= MaxArrays
               /\ heap' = clean.heap
               /\ pc' = [pc EXCEPT ![t] = "add"]
               /\ arg' = [arg EXCEPT ![t] = [p EXCEPT !.Tags = clean.slice]]
               /\ given' = [given EXCEPT ![t] = p]
               /\ UNCHANGED <<ret, c_path, local>>
    /\ UNCHANGED <<projects, byPath, fs, fd>>

WrittenTags == {TagX}
WrittenTypes == {TypeRust}

\* One caller that builds records with tags and types, adds them, reads them
\* back and changes what it was returned.
NextSnapshot ==
    \/ NewProjectCall("p1")
    \/ \E b \in {"WithTypes", "WithTags"} : BuilderCall(b)
    \/ \E p \in Held : AddCallOnHeap("t1", p)
    \/ AddStore("t1")
    \/ AddIndex("t1")
    \/ GetCall("t1", "p1")
    \/ GetBody("t1")
    \/ ListCall("t1")
    \/ ListBody("t1")
    \/ RemoveTagReturned(1, TagS)
    \/ \E v \in WrittenTags : WriteReturned(1, "Tags", 1, v)
    \/ \E v \in WrittenTypes : WriteReturned(1, "Types", 1, v)

SpecSnapshot == InitHeap /\ [][NextSnapshot]_vars

\* One caller that applies the builders and writes to the receiver, to the
\* result and to the argument.
NextBuilders ==
    \/ NewProjectCall("p1")
    \/ LiteralCall("p1")
    \/ \E b \in BuilderNames : BuilderCall(b)
    \/ RemoveTagReturned(1, TagS)
    \/ \E v \in WrittenTags : WriteReturned(1, "Tags", 1, v)
    \/ \E v \in WrittenTypes : WriteReturned(1, "Types", 1, v)
    \/ \E v \in WrittenTags : WriteLocal("Tags", 1, v)
    \/ \E v \in WrittenTypes : WriteLocal("Types", 1, v)
    \/ \E v \in WrittenTags : WriteArg(ArgTags, 1, v)
    \/ \E v \in WrittenTypes : WriteArg(ArgTypes, 1, v)

SpecBuilders == InitHeap /\ [][NextBuilders]_vars

(***************************************************************************)
(* The engine next to the reference model of the property tests.  The      *)
(* caller is CheckedCatalog: it draws a call, makes it on the engine, then *)
(* on its StateTracker, and compares the two outcomes.  local holds the    *)
(* tracker's two maps and the call that was drawn.                         *)
(***************************************************************************)
newStateTracker == [idToPath |-> EmptyMap, pathToID |-> EmptyMap]

StateTrackerAdd(m, p) ==
    IF p.Path \in DOMAIN m.pathToID THEN [err |-> ErrAlreadyExists, m |-> m]
    ELSE [err |-> Ok,
          m |-> [idToPath |-> MapPut(m.idToPath, p.ID, p.Path),
                 pathToID |-> MapPut(m.pathToID, p.Path, p.ID)]]

StateTrackerRemove(m, id) ==
    IF id \notin DOMAIN m.idToPath THEN [err |-> ErrNotFound, m |-> m]
    ELSE [err |-> Ok,
          m |-> [idToPath |-> MapDel(m.idToPath, id),
                 pathToID |-> MapDel(m.pathToID, m.idToPath[id])]]

StateTrackerUpdate(m, p) ==
    IF p.ID \notin DOMAIN m.idToPath THEN [err |-> ErrNotFound, m |-> m]
    ELSE [err |-> Ok,
          m |-> [idToPath |-> MapPut(m.idToPath, p.ID, p.Path),
                 pathToID |->
                    IF m.idToPath[p.ID] # p.Path
                    THEN MapPut(MapDel(m.pathToID, m.idToPath[p.ID]),
                                p.Path, p.ID)
                    ELSE m.pathToID]]

\* Exists and PathExists, as the error a lookup on the tracker stands for.
StateTrackerExists(m, id) ==
    [err |-> IF id \in DOMAIN m.idToPath THEN Ok ELSE ErrNotFound, m |-> m]

StateTrackerPathExists(m, path) ==
    [err |-> IF path \in DOMAIN m.pathToID THEN Ok ELSE ErrNotFound, m |-> m]

\* The tracker's side of the call that was drawn.
ModelCall(m, call) ==
    CASE call.op = "Add" -> StateTrackerAdd(m, call.arg)
      [] call.op = "Remove" -> StateTrackerRemove(m, call.arg)
      [] call.op = "Update" -> StateTrackerUpdate(m, call.arg)
      [] call.op = "Get" -> StateTrackerExists(m, call.arg)
      [] call.op = "GetByPath" -> StateTrackerPathExists(m, call.arg)

\* Records that pass validation: NewProject on a directory that exists.
ValidProjects == {NewProject(id, NameA, path, 0) : id \in Ids, path \in DirsOnDisk}

InitChecked ==
    /\ NewYAMLCatalog(CatalogPath)
    /\ heap = <<>>
    /\ local = [model |-> newStateTracker, call |-> NoArg]

\* The test draws the next call and its argument.
Draw(op, a) ==
    /\ \A t \in Threads : pc[t] = "idle"
    /\ local.call = NoArg
    /\ local' = [local EXCEPT !.call = [op |-> op, arg |-> a]]
    /\ ret' = Result("Draw", Ok, NoVal, 0)
    /\ UNCHANGED <<projects, byPath, mu, fs, pc, arg, given, fd, c_path, heap>>

\* The call that was drawn has not been made on the engine yet.
Drawn(op) == ret.op = "Draw" /\ local.call.op = op

\* After the engine has returned: the same call on the tracker.
CheckedModelCall ==
    /\ \A t \in Threads : pc[t] = "idle"
    /\ local.call # NoArg
    /\ ret.op = local.call.op
    /\ local' = [model |-> ModelCall(local.model, local.call).m, call |-> NoArg]
    /\ UNCHANGED <<projects, byPath, mu, fs, pc, arg, given, fd, ret, c_path,
                   heap>>

NextChecked ==
    \/ \E p \in ValidProjects : Draw("Add", p)
    \/ \E p \in ValidProjects : Draw("Update", p)
    \/ \E id \in Ids : Draw("Remove", id)
    \/ \E id \in Ids : Draw("Get", id)
    \/ \E path \in DirsOnDisk : Draw("GetByPath", path)
    \/ Drawn("Add") /\ AddCall("t1", local.call.arg)
    \/ AddStore("t1")
    \/ AddIndex("t1")
    \/ Drawn("Update") /\ UpdateCall("t1", local.call.arg)
    \/ UpdateIndex("t1")
    \/ UpdateStore("t1")
    \/ Drawn("Remove") /\ RemoveCall("t1", local.call.arg)
    \/ RemoveStore("t1")
    \/ RemoveIndex("t1")
    \/ Drawn("Get") /\ GetCall("t1", local.call.arg)
    \/ GetBody("t1")
    \/ Drawn("GetByPath") /\ GetByPathCall("t1", local.call.arg)
    \/ GetByPathBody("t1")
    \/ CheckedModelCall

SpecChecked == InitChecked /\ [][NextChecked]_vars

(***************************************************************************)
(* Properties                                                              *)
(***************************************************************************)
WriterPcs ==
    {"add", "add_index", "update", "update_store", "remove", "remove_index",
     "load"}

ReaderPcs ==
    {"get", "get_by_path", "list", "count", "search", "filter",
     "save_open", "save_write", "save_rename"}

SavePcs == {"save_open", "save_write", "save_rename"}

\* The ids whose stored record has path p.
HoldersOf(p) == {id \in DOMAIN projects : projects[id].Path = p}

\* A fresh engine on the same file, after Load.
FreshLoad(bytes) == LoadIndices(FreshIndices, Unmarshal(bytes).file.Projects)

\* C1: whenever no writer is inside a call, every stored record r has the
\* secondary entry r.Path -> r.ID, and every secondary entry p -> i names a
\* stored id i whose record has path p.
C1_IndexConsistency ==
    ~mu.w =>
        /\ \A id \in DOMAIN projects :
              /\ projects[id].Path \in DOMAIN byPath
              /\ byPath[projects[id].Path] = projects[id].ID
        /\ \A p \in DOMAIN byPath :
              /\ byPath[p] \in DOMAIN projects
              /\ projects[byPath[p]].Path = p

\* C2: whenever no writer is inside a call, no two records of any list()
\* result share a path.
C2_PathUnique ==
    ~mu.w =>
        \A o \in MapOrders(projects) :
            \A i, j \in 1..Len(o) : i # j => o[i].Path # o[j].Path

\* C3: an add of a valid record whose path a stored record holds returns
\* AlreadyExists and changes neither index.
C3_AddDuplicatePath ==
    [][\A t \in Threads :
          (pc[t] = "add" /\ pc'[t] # "add" /\ HoldersOf(arg[t].Path) # {})
          => /\ pc'[t] = "idle"
             /\ ret'.err = ErrAlreadyExists
             /\ projects' = projects
             /\ byPath' = byPath]_vars

\* C4: an update that would move a stored record onto a path held by a
\* record with another id returns AlreadyExists and changes neither index.
C4_UpdateOntoTakenPath ==
    [][\A t \in Threads :
          (/\ pc[t] = "update" /\ pc'[t] # "update"
           /\ arg[t].ID \in DOMAIN projects
           /\ projects[arg[t].ID].Path # arg[t].Path
           /\ HoldersOf(arg[t].Path) \ {arg[t].ID} # {})
          => /\ pc'[t] = "idle"
             /\ ret'.err = ErrAlreadyExists
             /\ projects' = projects
             /\ byPath' = byPath]_vars

\* C5: every step of a save leaves the target file as it was or holding
\* exactly the complete data of that save.
C5_SaveAtomic ==
    [][\A t \in Threads :
          (pc[t] \in SavePcs /\ pc'[t] # pc[t])
          => \/ fs'.target = fs.target
             \/ fs'.target = FileOf(arg[t].data)]_vars

\* C6: when saves overlap, every save returns success, and every step of a
\* save leaves the target file as it was or holding that save's complete
\* data.
C6_ConcurrentSaves ==
    [][\A t \in Threads :
          /\ (pc[t] = "save_rename" /\ pc'[t] = "idle") => ret'.err = Ok
          /\ (pc[t] \in SavePcs /\ pc'[t] # pc[t])
             => (fs'.target = fs.target \/ fs'.target.data = arg[t].data)]_vars

AddedOnly ==
    \A id \in DOMAIN projects :
        \E p \in InputProjects :
            /\ ValidateAndNormalize(p).err = Ok
            /\ projects[id] = ValidateAndNormalize(p).p
            /\ p.ID = id

\* C8: after adds and a successful save, a fresh engine that loads the file
\* has the same count and, for every record, an equal record under its id.
C8_RoundTrip ==
    [][\A t \in Threads :
          (/\ pc[t] = "save_rename" /\ pc'[t] = "idle" /\ ret'.err = Ok
           /\ AddedOnly)
          => LET fresh == FreshLoad(fs'.target.data).projects
             IN /\ Cardinality(DOMAIN fresh) = Cardinality(DOMAIN projects)
                /\ \A id \in DOMAIN projects :
                      /\ id \in DOMAIN fresh
                      /\ fresh[id] = projects[id]]_vars

\* The records of a parsed list, as a set.
Elems(s) == {s[i] : i \in 1..Len(s)}

\* The records of a parsed list that no later record of the same id follows.
LastPerID(s) ==
    {s[i] : i \in {k \in 1..Len(s) :
                      \A j \in (k + 1)..Len(s) : s[j].ID # s[k].ID}}

\* A load of the existing file returns success in this step.
LoadSucceeds(t) ==
    /\ pc[t] = "load" /\ pc'[t] = "idle"
    /\ fs.target.exists
    /\ ret'.err = Ok

C10_LoadMissingFile ==
    [][\A t \in Threads :
          (pc[t] = "load" /\ pc'[t] = "idle" /\ ~fs.target.exists)
          => /\ ret'.err = Ok
             /\ Cardinality(DOMAIN projects') = 0]_vars

\* C11: Load of a catalog file whose bytes are malformed returns an error
\* whose message contains the catalog file's path.
C11_LoadMalformed ==
    [][\A t \in Threads :
         (/\ pc[t] = "load" /\ pc'[t] = "idle"
          /\ fs.target.exists
          /\ \E i \in 1..Len(fs.target.data) :
                 fs.target.data[i].kind = "garbage")
         => /\ ret'.op = "Load"
            /\ ret'.err # Ok
            /\ Contains(ret'.msg, c_path)]_vars

\* The calls that change the indices.
MutatingOps == {"Add", "Update", "Remove", "Load"}

\* C12: after every successful Add, Update, Remove and Load every stored
\* record has a non-empty id and no two stored records have the same id.
C12_IdsNonEmptyUnique ==
    [][\A t \in Threads :
         (/\ pc[t] # "idle" /\ pc'[t] = "idle"
          /\ ret'.op \in MutatingOps /\ ret'.err = Ok)
         => \A o \in MapOrders(projects') :
               /\ \A i \in 1..Len(o) : o[i].ID # ""
               /\ \A i, j \in 1..Len(o) : i # j => o[i].ID # o[j].ID]_vars

\* C13: a successful Add(r) raises the count by exactly one and leaves r.ID
\* stored, and a Remove of a stored id succeeds and lowers the count by one,
\* so that Add(r) followed by Remove(r.ID) restores the count.
C13_AddRemoveCount ==
    [][\A t \in Threads :
         /\ (pc[t] = "add" /\ pc'[t] = "add_index")
            => /\ Count' = Count + 1
               /\ arg[t].ID \in DOMAIN projects'
         /\ (pc[t] = "remove" /\ pc'[t] # "remove"
             /\ arg[t].ID \in DOMAIN projects)
            => /\ pc'[t] = "remove_index"
               /\ Count' = Count - 1]_vars

\* C14: in every state the number Count returns is the length of every
\* list that List may return.
C14_CountIsLenList == \A o \in listUnlocked : Len(o) = Count

C14_Witness ==
    /\ ret.op = "List" /\ ret.n = 2 /\ Len(ret.val) = 2
    /\ Count = 2
    /\ Cardinality(DOMAIN byPath) = 1

ValidationErrors ==
    {ErrEmptyName, ErrRelativePath, ErrPathNotExist, ErrInvalidStatus}

\* C15: an Add or Update that returns a validation error (EmptyName,
\* RelativePath, PathNotExist, InvalidStatus) changes neither index and no
\* stored record.
C15_ValidationBeforeMutation ==
    [][(/\ pc' = pc
        /\ ret'.op \in {"Add", "Update"}
        /\ ret'.err \in ValidationErrors)
       => projects' = projects /\ byPath' = byPath]_vars

C15_Witness ==
    /\ ret.op = "Add" /\ ret.err = ErrInvalidStatus
    /\ Count = 1
    /\ \A t \in Threads : pc[t] = "idle"

\* The step returns NotFound from op and leaves both indices as they were.
NotFoundUnchanged(t, op) ==
    /\ pc'[t] = "idle"
    /\ ret'.op = op /\ ret'.err = ErrNotFound
    /\ projects' = projects /\ byPath' = byPath

\* C16: Get, Update and Remove of an id that is not in the primary index,
\* and GetByPath of a path that is not in the secondary index, return
\* NotFound and leave the state unchanged.
C16_NotFound ==
    [][\A t \in Threads :
         /\ (pc[t] = "get" /\ pc'[t] # "get"
             /\ arg[t].ID \notin DOMAIN projects)
            => NotFoundUnchanged(t, "Get")
         /\ (pc[t] = "update" /\ pc'[t] # "update"
             /\ arg[t].ID \notin DOMAIN projects)
            => NotFoundUnchanged(t, "Update")
         /\ (pc[t] = "remove" /\ pc'[t] # "remove"
             /\ arg[t].ID \notin DOMAIN projects)
            => NotFoundUnchanged(t, "Remove")
         /\ (pc[t] = "get_by_path" /\ pc'[t] # "get_by_path"
             /\ arg[t].Path \notin DOMAIN byPath)
            => NotFoundUnchanged(t, "GetByPath")]_vars

C16_Witness ==
    /\ ret.op = "Update" /\ ret.err = ErrNotFound
    /\ DOMAIN projects = {"p2"}
    /\ \A t \in Threads : pc[t] = "idle"

\* C17: when a successful Update(r) moves a stored record from path old to
\* path new, afterwards GetByPath(old) returns NotFound, GetByPath(new)
\* returns the record with id r.ID and Get(r.ID) the record with path new.
C17_UpdatePathMoves ==
    [][\A t \in Threads :
         (/\ pc[t] = "update_store" /\ pc'[t] = "idle"
          /\ projects[arg[t].ID].Path # arg[t].Path)
         => LET id == arg[t].ID
                old == projects[arg[t].ID].Path
                new == arg[t].Path
            IN /\ ret'.op = "Update" /\ ret'.err = Ok
               /\ GetByPath(projects', byPath', old).err = ErrNotFound
               /\ GetByPath(projects', byPath', new).err = Ok
               /\ GetByPath(projects', byPath', new).p.ID = id
               /\ Get(projects', id).err = Ok
               /\ Get(projects', id).p.Path = new]_vars

C17_Witness ==
    /\ ret.op = "Update" /\ ret.err = Ok
    /\ "p1" \in DOMAIN projects /\ projects["p1"].Path = PathB
    /\ DOMAIN byPath = {PathB}
    /\ fs.target.exists
    /\ Len(DecodeProjects(fs.target.data)) = 1
    /\ DecodeProjects(fs.target.data)[1].ID = "p1"
    /\ DecodeProjects(fs.target.data)[1].Path = PathA
    /\ \A t \in Threads : pc[t] = "idle"

\* The error the validation rules name for record p, in their order.
ExpectedError(p) ==
    CASE TrimSpace(p.Name) = <<>> -> ErrEmptyName
      [] OTHER ->
    CASE p.Path = <<>> \/ p.Path[1] # "/" -> ErrRelativePath
      [] OTHER ->
    CASE p.Path \notin DirsOnDisk \cup DirsDenied -> ErrPathNotExist
      [] p.Path \in DirsDenied -> ErrAccess
      [] OTHER ->
    CASE /\ p.Status # ""
         /\ p.Status \notin {StatusActive, StatusArchived, StatusAbandoned}
         -> ErrInvalidStatus
      [] OTHER -> Ok

\* C18: ValidateAndNormalize returns EmptyName for a blank name, else
\* RelativePath for a path that is not absolute, else PathNotExist for an
\* absent path (an access error for another stat failure), else
\* InvalidStatus for a status that is set and not one of the three, else nil.
C18_ValidationOrder ==
    [][\A t \in Threads :
         (pc[t] = "validate" /\ pc'[t] = "validated")
         => /\ ret'.op = "ValidateAndNormalize"
            /\ ret'.err = ExpectedError(arg[t])]_vars

C18_Witness ==
    /\ pc["t1"] = "validated"
    /\ ret.op = "ValidateAndNormalize" /\ ret.err = Ok
    /\ arg["t1"].Status = StatusAbandoned
    /\ arg["t1"].Name = NamePadded

\* The trimmed, non-empty entries of tags in their order.
TrimmedNonEmpty(tags) ==
    SelectSeq([i \in 1..Len(tags) |-> TrimSpace(tags[i])],
              LAMBDA x : x # <<>>)

\* C19: the record stored by a successful Add or Update has as tags the
\* trimmed, non-empty entries of the tags the caller gave, in their order.
C19_StoredTagsNormalized ==
    [][\A t \in Threads :
         (/\ pc[t] \in {"add_index", "update_store"} /\ pc'[t] = "idle"
          /\ ret'.err = Ok)
         => /\ given[t].ID \in DOMAIN projects'
            /\ projects'[given[t].ID].Tags.elems
                  = TrimmedNonEmpty(given[t].Tags.elems)]_vars

C19_Witness ==
    /\ ret.op = "Update" /\ ret.err = Ok
    /\ "p1" \in DOMAIN projects
    /\ projects["p1"].Tags.elems = <<TagValid, <<"w">>>>
    /\ \A t \in Threads : pc[t] = "idle"

\* C20: a second ValidateAndNormalize on a record on which the first
\* succeeded succeeds too and leaves the tags as the first call left them.
C20_ValidateIdempotent ==
    [][\A t \in Threads :
         (/\ pc[t] = "validated" /\ pc'[t] = "validated"
          /\ ret.err = Ok /\ ret'.n = ret.n + 1)
         => /\ ret'.err = Ok
            /\ arg'[t].Tags = arg[t].Tags]_vars

C20_Witness ==
    /\ pc["t1"] = "validated"
    /\ ret.op = "ValidateAndNormalize" /\ ret.err = Ok /\ ret.n = 2
    /\ given["t1"].Tags.elems = <<TagValid, TagBlank, TagPadded>>
    /\ arg["t1"].Tags.elems = <<TagValid, <<"w">>>>

\* C21: Types and Tags are never nil: neither in the record NewProject
\* returns (the record a caller hands to Add) nor in any record of List()
\* after a successful Add, Update, Remove or Load.
C21_NoNilSlices ==
    [][\A t \in Threads :
         /\ (pc[t] = "idle" /\ pc'[t] = "add")
            => ~given'[t].Types.nil /\ ~given'[t].Tags.nil
         /\ (/\ pc[t] # "idle" /\ pc'[t] = "idle"
             /\ ret'.op \in MutatingOps /\ ret'.err = Ok)
            => \A o \in listUnlocked' : \A i \in 1..Len(o) :
                  ~o[i].Types.nil /\ ~o[i].Tags.nil]_vars

\* C22: after every successful Add, Update, Remove and Load the status of
\* every stored record is unset or one of active, archived, abandoned.
C22_StoredStatusValid ==
    [][\A t \in Threads :
         (/\ pc[t] # "idle" /\ pc'[t] = "idle"
          /\ ret'.op \in MutatingOps /\ ret'.err = Ok)
         => \A id \in DOMAIN projects' :
               projects'[id].Status
                  \in {"", StatusActive, StatusArchived, StatusAbandoned}]_vars

\* The ids of the records of a result list.
IdSet(r) == {r[i].ID : i \in 1..Len(r)}

\* The stored ids whose record has q, lower-cased, as a substring of its
\* lower-cased name, of its lower-cased path or of a lower-cased tag.
MatchingIds(q) ==
    {id \in DOMAIN projects :
        LET p == projects[id]
            lq == ToLower(q)
        IN \/ Contains(ToLower(p.Name), lq)
           \/ Contains(ToLower(p.Path), lq)
           \/ \E i \in 1..Len(p.Tags.elems) :
                 Contains(ToLower(p.Tags.elems[i]), lq)}

\* C25: Search(q) for a non-empty q returns exactly the stored records that
\* have lower(q) as a substring of the lower-cased name, path or a tag, and
\* Search(q) and Search(upper(q)) return the same set of ids.
C25_SearchCaseInsensitive ==
    \A q \in Queries \ {<<>>} :
        \A r \in Search(projects, q) :
            /\ IdSet(r) = MatchingIds(q)
            /\ \A u \in Search(projects, ToUpper(q)) : IdSet(u) = IdSet(r)

\* The first half of C25 alone.
C25_SearchMatches ==
    \A q \in Queries \ {<<>>} :
        \A r \in Search(projects, q) : IdSet(r) = MatchingIds(q)

\* C26: Search("") returns the same set of ids as List().
C26_EmptySearchIsList ==
    \A r \in Search(projects, <<>>) :
        \A l \in listUnlocked : IdSet(r) = IdSet(l)

C26_Witness ==
    /\ ret.op = "Search" /\ ret.n = 2
    /\ IdSet(ret.val) = {"p1", "p2"}
    /\ \A t \in Threads : pc[t] = "idle"

Members(seq) == {seq[i] : i \in 1..Len(seq)}

\* The stored ids of the records that satisfy every condition of opts.
SatisfyingIds(opts) ==
    {id \in DOMAIN projects :
        LET p == projects[id]
        IN /\ opts.Status # "" => p.Status = opts.Status
           /\ Len(opts.Types) > 0
                => Members(opts.Types) \cap Members(p.Types.elems) # {}
           /\ Members(opts.Tags) \subseteq Members(p.Tags.elems)
           /\ opts.Query # <<>> => id \in MatchingIds(opts.Query)}

\* C27: Filter(opts) returns exactly the stored records that have the status
\* of opts when it is set, one of the types of opts when there are any, every
\* tag of opts, and that match the query of opts when it is not empty.
C27_FilterSelects ==
    \A opts \in AllFilterOptions :
        \A r \in Filter(projects, opts) :
            /\ IdSet(r) = SatisfyingIds(opts)
            /\ \A i \in 1..Len(r) : r[i] = projects[r[i].ID]

C27_Witness ==
    /\ ret.op = "Filter" /\ ret.n = 1
    /\ Cardinality(DOMAIN projects) = 2
    /\ \E opts \in AllFilterOptions :
          /\ opts.Status # "" /\ opts.Types # <<>>
          /\ opts.Tags # <<>> /\ opts.Query # <<>>
          /\ ret.val \in Filter(projects, opts)

NoIdTwice(r) == \A i, j \in 1..Len(r) : r[i].ID = r[j].ID => i = j

\* C28: the records Search(q) and Filter(opts) return have ids that List()
\* returns in the same state, and neither returns an id twice.
C28_ResultsWithinList ==
    \A l \in listUnlocked :
        /\ \A q \in Queries : \A r \in Search(projects, q) :
              IdSet(r) \subseteq IdSet(l) /\ NoIdTwice(r)
        /\ \A opts \in AllFilterOptions : \A r \in Filter(projects, opts) :
              IdSet(r) \subseteq IdSet(l) /\ NoIdTwice(r)

C28_Witness ==
    /\ ret.op = "Search" /\ ret.n = 1
    /\ Cardinality(DOMAIN projects) = 2
    /\ \E opts \in AllFilterOptions :
          \E r \in Filter(projects, opts) : Len(r) = 2

\* C29: on one catalog state Filter(opts) has one possible result, whatever
\* the order the map is walked in, for every sort field and both directions.
C29_FilterDeterministic ==
    \A opts \in AllFilterOptions :
        \A r1, r2 \in Filter(projects, opts) :
            /\ Len(r1) = Len(r2)
            /\ \A i \in 1..Len(r1) : r1[i].ID = r2[i].ID

\* Two stored records with the same last access time, and a Filter sorted on
\* that field has returned both.
C29_Witness ==
    /\ ret.op = "Filter" /\ ret.n = 2
    /\ ret.val[1].LastAccessed = ret.val[2].LastAccessed
    /\ \E opts \in CalledFilterOptions :
          /\ opts.SortBy = SortByLastAccessed
          /\ ret.val \in Filter(projects, opts)

\* The first type of a record, or the empty string.
FirstType(p) == IF Len(p.Types.elems) > 0 THEN p.Types.elems[1] ELSE ""

\* a is before b on the field alone.
FieldBefore(a, b, by) ==
    IF by = SortByPath THEN StrLess(a.Path, b.Path)
    ELSE IF by = SortByLastAccessed THEN a.LastAccessed < b.LastAccessed
    ELSE IF by = SortByAddedAt THEN a.AddedAt < b.AddedAt
    ELSE IF by = SortByTypes THEN AtomLess(FirstType(a), FirstType(b))
    ELSE StrLess(ToLower(a.Name), ToLower(b.Name))

\* a is before b on the field, or equal on it and before b on the id.
OrderedBefore(a, b, by) ==
    \/ FieldBefore(a, b, by)
    \/ ~FieldBefore(b, a, by) /\ AtomLess(a.ID, b.ID)

\* C30: the result of Filter is in the order of the selected field, records
\* equal on it in the order of their ids; the descending flag reverses that
\* whole order; the empty selector gives the order by name.
C30_FilterOrdered ==
    \A opts \in AllFilterOptions :
        \A r \in Filter(projects, opts) :
            /\ \A i, j \in 1..Len(r) :
                  i < j => IF opts.Descending
                           THEN OrderedBefore(r[j], r[i],
                                    IF opts.SortBy = "" THEN SortByName
                                    ELSE opts.SortBy)
                           ELSE OrderedBefore(r[i], r[j],
                                    IF opts.SortBy = "" THEN SortByName
                                    ELSE opts.SortBy)
            /\ opts.SortBy = ""
                 => r \in Filter(projects, [opts EXCEPT !.SortBy = SortByName])

\* A descending Filter by name has returned "Ab" before "a".
C30_Witness ==
    /\ ret.op = "Filter" /\ ret.n = 2
    /\ ret.val[1].Name = NameUpper /\ ret.val[2].Name = NameA
    /\ \E opts \in CalledFilterOptions :
          /\ opts.SortBy = "" /\ opts.Descending
          /\ ret.val \in Filter(projects, opts)

\* The stored records with their slices read out.
StoredValues == [id \in DOMAIN projects |-> ValueOf(heap, projects[id])]

\* C23: while the caller holds what Get or List returned and no call of the
\* catalog is in progress, nothing the caller does (RemoveTag, an assignment
\* to an element of the tags or types of the returned record) changes a
\* stored record.
C23_ReturnedIsSnapshot ==
    [][(/\ ret.op \in {"Get", "List"}
        /\ \A t \in Threads : pc[t] = "idle" /\ pc'[t] = "idle")
       => StoredValues' = StoredValues]_vars

\* The field a builder sets, and the value the modelled caller passes.
OwnField(b) ==
    CASE b = "WithTypes" -> "Types"
      [] b = "WithTags" -> "Tags"
      [] b = "WithStatus" -> "Status"
      [] b = "WithNotes" -> "Notes"
      [] b = "WithGitRemote" -> "GitRemote"
      [] b = "WithDescription" -> "Description"

OwnValue(b) ==
    CASE b = "WithTypes" -> MkSlice(Deref(heap, ArgTypes))
      [] b = "WithTags" -> MkSlice(Deref(heap, ArgTags))
      [] b = "WithStatus" -> StatusArchived
      [] b = "WithNotes" -> "n"
      [] b = "WithGitRemote" -> "r"
      [] b = "WithDescription" -> "d"

\* The arrays a record's tags and types have elements in.
ArraysOf(p) ==
    {p[f].ptr : f \in {f \in {"Types", "Tags"} : ~p[f].nil /\ p[f].len > 0}}

\* A step in which a builder returns: the caller's variable now holds the
\* receiver and ret the result.  A builder allocates, or it has another
\* receiver or another name than the one before; the caller's writes and
\* RemoveTag do none of these.
BuilderReturns ==
    /\ ret'.op \in BuilderNames
    /\ Len(heap') > Len(heap) \/ local' # local \/ ret'.op # ret.op

\* After a builder step: the receiver (now in local) shows what it showed,
\* the result shows the own field as passed, and the result's tags and types
\* are in arrays of their own.
ReceiverKept == ValueOf(heap', local') = ValueOf(heap, local')

NoSharedStorage ==
    ArraysOf(ret'.val[1]) \cap
        (ArraysOf(local') \cup {ArgTags.ptr, ArgTypes.ptr}) = {}

\* With a receiver and a builder's result in hand, a write that changes what
\* one of them (or the argument) shows leaves what the other shows.
WritesIsolated ==
    (/\ ret.op \in BuilderNames /\ ret'.op = ret.op /\ local' = local
     /\ Len(heap') = Len(heap) /\ heap' # heap)
    => LET resultChanged ==
               ValueOf(heap', ret'.val[1]) # ValueOf(heap, ret.val[1])
           receiverChanged == ValueOf(heap', local) # ValueOf(heap, local)
           argChanged == \/ Deref(heap', ArgTags) # Deref(heap, ArgTags)
                         \/ Deref(heap', ArgTypes) # Deref(heap, ArgTypes)
       IN ~(resultChanged /\ (receiverChanged \/ argChanged))

\* C24 as stated: every field of the result but the builder's own is equal
\* to the receiver's.
C24_BuildersChangeOwnFieldOnly ==
    [][BuilderReturns
       => LET p == ValueOf(heap, local')
              q == ValueOf(heap', ret'.val[1])
              b == ret'.op
          IN /\ ReceiverKept
             /\ NoSharedStorage
             /\ q[OwnField(b)] = OwnValue(b)
             /\ \A f \in DOMAIN p \ {OwnField(b)} : q[f] = p[f]]_vars

\* C24, amended: every builder leaves the receiver unchanged and returns a
\* copy with its own field set, whose other fields are equal to the
\* receiver's except that nil tags or types come back empty and not nil; the
\* copy's tags and types share no storage with the receiver's or the
\* argument's, so that a write to an element of one does not show in the
\* other.
C24_BuildersCopy ==
    [][/\ BuilderReturns
          => LET p == ValueOf(heap, local')
                 q == ValueOf(heap', ret'.val[1])
                 b == ret'.op
             IN /\ ReceiverKept
                /\ NoSharedStorage
                /\ q[OwnField(b)] = OwnValue(b)
                /\ \A f \in DOMAIN p \ {OwnField(b)} :
                      IF f \in {"Types", "Tags"}
                      THEN q[f] = MkSlice(p[f].elems)
                      ELSE q[f] = p[f]
       /\ WritesIsolated]_vars

\* WithStatus has returned a copy of a receiver that has tags, and the
\* caller has written to the receiver's first tag since.
C24_Witness ==
    /\ ret.op = "WithStatus"
    /\ local # NoVal
    /\ ret.val[1].Tags.len = 2 /\ local.Tags.len = 2
    /\ Deref(heap, local.Tags)[1] = TagX
    /\ Deref(heap, ret.val[1].Tags)[1] = TagS

Reverse(seq) == [i \in 1..Len(seq) |-> seq[Len(seq) + 1 - i]]

\* C31: for every options value, the result of Filter with Descending set is
\* the reverse of the result without it, records equal on the sort field
\* included.
C31_DescendingReverses ==
    \A opts \in AllFilterOptions :
        \A up \in Filter(projects, [opts EXCEPT !.Descending = FALSE]) :
            \A down \in Filter(projects, [opts EXCEPT !.Descending = TRUE]) :
                down = Reverse(up)

\* A descending Filter on the last access time has returned two records
\* that have the same one, the greater id first.
C31_Witness ==
    /\ ret.op = "Filter" /\ ret.n = 2
    /\ ret.val[1].LastAccessed = ret.val[2].LastAccessed
    /\ ret.val[1].ID = "p2" /\ ret.val[2].ID = "p1"
    /\ \E opts \in CalledFilterOptions :
          /\ opts.SortBy = SortByLastAccessed /\ opts.Descending
          /\ ret.val \in Filter(projects, opts)

\* The records of marshalled catalog data are in the order of their names.
SortedByName(data) ==
    LET ps == DecodeProjects(data)
    IN \A i, j \in 1..Len(ps) : i < j => ~StrLess(ps[j].Name, ps[i].Name)

\* C32: whatever a Save of the stored records writes is sorted by name, and
\* any two Saves of the same stored records write the same data.
C32_SaveStable ==
    \A d1, d2 \in SaveData(projects) : SortedByName(d1) /\ d1 = d2

\* verifyStructuralInvariants on the engine: Count() is the length of List(),
\* no path is listed twice, no listed record has an empty id or nil types or
\* tags.
StructuralInvariants ==
    \A l \in listUnlocked :
        /\ Count = Len(l)
        /\ \A i, j \in 1..Len(l) : l[i].Path = l[j].Path => i = j
        /\ \A i \in 1..Len(l) :
              l[i].ID # "" /\ ~l[i].Types.nil /\ ~l[i].Tags.nil

\* C33: when the caller makes on the tracker the call the engine has just
\* returned from, the two succeed or fail together, and the structural
\* invariants hold on the engine.
C33_EngineMatchesModel ==
    [][(local.call # NoArg /\ local'.call = NoArg)
       => /\ (ret.err = Ok) <=> (ModelCall(local.model, local.call).err = Ok)
          /\ StructuralInvariants]_vars

\* The mutex is write-locked exactly while one goroutine is inside a writer's
\* critical section, and its reader count is the number of goroutines inside
\* a reader's critical section.
LockHeldByCallers ==
    /\ mu.w <=> (\E t \in Threads : pc[t] \in WriterPcs)
    /\ mu.r = Cardinality({t \in Threads : pc[t] \in ReaderPcs})
    /\ Cardinality({t \in Threads : pc[t] \in WriterPcs}) <= 1

C35_OneAddWins ==
    (\A t \in Threads : local[t] \notin {"ready", "running"})
    => \E t \in Threads :
          /\ local[t] = Ok
          /\ \A u \in Threads \ {t} : local[u] = ErrAlreadyExists
          /\ HoldersOf(RacePath) = {RaceRecord(t).ID}
          /\ byPath[RacePath] = RaceRecord(t).ID

\* C35 witness: both Adds have returned, the one of p2 nil and the one of p1
\* ErrAlreadyExists, and p1 is still stored at the path it had before.
C35_Witness ==
    /\ local["t2"] = Ok
    /\ local["t1"] = ErrAlreadyExists
    /\ "p1" \in DOMAIN projects
    /\ projects["p1"].Path = PathB

\* C36: a Load that returns an error (the file could not be read, or it
\* could not be parsed) leaves the primary and the secondary index as they
\* were when it was called.
C36_FailedLoadKeepsIndices ==
    [][\A t \in Threads :
         (pc[t] = "load" /\ pc'[t] = "idle" /\ ret'.err # Ok)
         => /\ ret'.err \in {ErrRead, ErrParse}
            /\ projects' = projects
            /\ byPath' = byPath]_vars

\* C36 witness: a Load has failed to parse the file while a record was
\* stored, and the record is still there.
C36_Witness ==
    /\ ret.op = "Load"
    /\ ret.err = ErrParse
    /\ fs.target.exists
    /\ DOMAIN projects # {}
    /\ DOMAIN byPath # {}

\* C37: a successful Update(r) leaves the set of stored ids and Count as
\* they were, changes no record other than the one with id r.ID, and
\* changes no entry of the secondary index other than those of r's old and
\* new path.
C37_UpdateFrame ==
    [][\A t \in Threads :
         /\ (pc[t] = "update" /\ pc'[t] = "update_store")
            => LET old == projects[arg[t].ID].Path
                   new == arg[t].Path
               IN /\ projects' = projects
                  /\ \A q \in (DOMAIN byPath \cup DOMAIN byPath') \ {old, new} :
                        /\ q \in DOMAIN byPath
                        /\ q \in DOMAIN byPath'
                        /\ byPath'[q] = byPath[q]
         /\ (pc[t] = "update_store" /\ pc'[t] = "idle")
            => /\ ret'.op = "Update" /\ ret'.err = Ok
               /\ DOMAIN projects' = DOMAIN projects
               /\ Count' = Count
               /\ \A id \in DOMAIN projects \ {arg[t].ID} :
                     projects'[id] = projects[id]
               /\ byPath' = byPath]_vars

\* C37 witness: an Update of p1 has succeeded while p2 was stored at a third
\* path, and p2 and its entry are as Load made them.
C37_Witness ==
    /\ ret.op = "Update" /\ ret.err = Ok
    /\ DOMAIN projects = {"p1", "p2"}
    /\ projects["p1"].Path = PathB
    /\ projects["p2"].Path = PathGone
    /\ DOMAIN byPath = {PathB, PathGone}
    /\ byPath[PathGone] = "p2"
    /\ \A t \in Threads : pc[t] = "idle"

\* C38: a path that no stored record has is free: an Add of a valid record
\* that reaches the byPath test with such a path goes on to store the
\* record.
C38_PathFreeForReuse ==
    [][\A t \in Threads :
         (pc[t] = "add" /\ pc'[t] # "add" /\ HoldersOf(arg[t].Path) = {})
         => pc'[t] = "add_index"]_vars

\* C39: in every state every key of the primary index holds a record whose
\* ID is that key, so that Get(id) returns a record with that id or
\* NotFound.
C39_StoredUnderOwnId ==
    /\ \A k \in DOMAIN projects : projects[k].ID = k
    /\ \A id \in InputIds :
          Get(projects, id).err = Ok => Get(projects, id).p.ID = id

\* C39 witness: a record without an id has been loaded from the file and a
\* record with an id has been added; each is stored under its own id.
C39_Witness ==
    /\ DOMAIN projects = {"", "p1"}
    /\ projects[""].ID = ""
    /\ projects["p1"].ID = "p1"
    /\ ret.op = "Add" /\ ret.err = Ok

====
